---------------------------- MODULE Spec2Model ----------------------------
(***************************************************************************)
(* Consensus processing core of a federated node                           *)
(* (src/state/stateConsensus.go).                                          *)
(*                                                                         *)
(* The State object of the source is the record held by the variable s;   *)
(* its fields keep the names of the Go struct fields.  Every handler of   *)
(* the source is an operator from a State record (and the handler's       *)
(* arguments) to the State record the handler leaves behind, so that a    *)
(* handler that calls another one is the composition of the two.  A       *)
(* handler that returns a bool gives the pair [s, ret].                    *)
(*                                                                         *)
(* Three fields of the record are not fields of the Go struct:             *)
(*   panicked  the handler hit a nil dereference (or left the bounds of    *)
(*             the model): the step does not happen;                       *)
(*   log       what the handlers of the running step did, for the history  *)
(*             variable g;                                                 *)
(*   env       what the world outside the State answers during the step    *)
(*             (the clock, the validation of held messages).               *)
(* The variable g holds history values used only by properties.            *)
(***************************************************************************)
EXTENDS Integers, Sequences, FiniteSets, TLC

VARIABLES s, g

vars == <<s, g>>

(***************************************************************************)
(* Bounds of the model.                                                    *)
(***************************************************************************)
\* number of federated servers, hence of VMs, of a process list
NumFed == 2
\* number of audit servers of a process list
NumAudit == 1
\* highest directory block height the model lets LLeaderHeight reach
MaxHeight == 2
\* highest System.Height / SysHeight value
MaxSys == 1
\* longest VM list of the message specifications
MaxList == 3
\* highest number of entry credits of a commit
MaxCredits == 2
\* number of entry hashes
NumEntries == 1
\* messages of the network that wait unprocessed in the list of one VM
MaxBacklog == 1
\* messages and acks of the network that wait for their other half
MaxPending == 1
\* messages the network sends out of turn in one run
MaxOdd == 1
\* bursts of DBStates the network sends in one run
MaxDBStates == 1
\* full faults a node works on in one run
MaxFaults == 1
\* the minutes of a block in which servers are faulted
MaxFaultMinute == 1
\* signatures of another block body a process list counts
MaxTally == 2

(***************************************************************************)
(* Program constants.                                                      *)
(***************************************************************************)
\* the minute at which ProcessEOM closes the block
BlockMinutes == 10
\* the double-spend scan covers heights below this one ...
ScanLow == 2000
\* ... and above this one
ScanHigh == 100000
\* the backlog beyond which held messages are dropped (src 297)
HoldingMaxBacklog == 1000
\* EOMs and DBSigs this far behind the highest known block are dropped (src 327)
HoldingBehind == 3

VMs == 0 .. (NumFed - 1)
Heights == 0 .. MaxHeight
PLHeights == 0 .. (MaxHeight + 1)
Servers == 1 .. (NumFed + NumAudit)
\* the Minute byte of an EOM, as the data model gives it (sub-block index)
EOMMinutes == 0 .. (BlockMinutes - 1)
SysHeights == 0 .. MaxSys

Max(a, b) == IF a >= b THEN a ELSE b

RECURSIVE SeqIndex(_, _, _)
\* first index (1-based) of x in sequence q at or after i, 0 if absent
SeqIndex(q, x, i) ==
  IF i > Len(q) THEN 0
  ELSE IF q[i] = x THEN i
  ELSE SeqIndex(q, x, i + 1)

SeqRemove(q, x) ==
  LET k == SeqIndex(q, x, 1)
  IN IF k = 0 THEN q
     ELSE [j \in 1 .. (Len(q) - 1) |-> IF j < k THEN q[j] ELSE q[j + 1]]

\* Go maps: a function whose domain is the set of keys present
MapGet(f, h, nil) == IF h \in DOMAIN f THEN f[h] ELSE nil

MapPut(f, h, v) == [k \in DOMAIN f \cup {h} |-> IF k = h THEN v ELSE f[k]]

MapDelete(f, h) == [k \in DOMAIN f \ {h} |-> f[k]]

EmptyMap == [k \in {} |-> 0]

(***************************************************************************)
(* Data: virtual servers, process lists, DBStates.                         *)
(***************************************************************************)
NewVM ==
  [List |-> <<>>, Height |-> 0, LeaderMinute |-> 0, Synced |-> TRUE,
   Signed |-> FALSE, EomMinuteIssued |-> 0, WhenFaulted |-> 0, FaultFlag |-> 0]

NewProcessList ==
  [FedServers |-> [i \in 1 .. NumFed |-> i],
   AuditServers |-> [i \in 1 .. NumAudit |-> NumFed + i],
   VMs |-> [i \in VMs |-> NewVM],
   SysHeight |-> 0,
   SysHighest |-> 0,
   DBSigAlreadySent |-> FALSE,
   FactoidBalancesTMutex |-> FALSE,
   ECBalancesTMutex |-> FALSE,
   DiffSigTally |-> 0,
   NewEBlocks |-> EmptyMap,
   ECMinutes |-> <<>>,
   Online |-> [i \in Servers |-> TRUE]]

NilDBState ==
  [Exists |-> FALSE, IsNew |-> FALSE, ReadyToSave |-> FALSE, Locked |-> FALSE,
   Signed |-> FALSE, Saved |-> FALSE]

\* DBStates.Get(h): nil outside the ledger (h-1 of height 0 wraps around)
GetDBState(st, h) ==
  IF h \in Heights THEN st.DBStates[h] ELSE NilDBState

RECURSIVE HighestSavedFrom(_, _)
HighestSavedFrom(st, h) ==
  IF h = 0 THEN 0
  ELSE IF st.DBStates[h].Exists /\ st.DBStates[h].Saved THEN h
  ELSE HighestSavedFrom(st, h - 1)

GetHighestSavedBlk(st) == HighestSavedFrom(st, MaxHeight)

RECURSIVE HighestCompletedFrom(_, _)
HighestCompletedFrom(st, h) ==
  IF h = 0 THEN 0
  ELSE IF st.DBStates[h].Exists /\ st.DBStates[h].Locked THEN h
  ELSE HighestCompletedFrom(st, h - 1)

\* DBStates.GetHighestCompletedBlk(): the highest block signed off (locked)
GetHighestCompletedBlk(st) == HighestCompletedFrom(st, MaxHeight)

\* pl.GetVirtualServers(minute, identity): is the identity a federated
\* server of the list, and the VM it leads at that minute
GetVirtualServers(pl, minute, id) ==
  LET k == SeqIndex(pl.FedServers, id, 1)
  IN [Leader |-> k # 0,
      LeaderVMIndex |-> IF k = 0 THEN 0 ELSE ((k - 1) + minute) % NumFed]

SetLeader(st, minute) ==
  LET r == GetVirtualServers(st.ProcessLists[st.LeaderPL], minute, st.IdentityChainID)
  IN [st EXCEPT !.Leader = r.Leader, !.LeaderVMIndex = r.LeaderVMIndex]

\* a handler's state and its return value
Ret(st, ret) == [s |-> st, ret |-> ret]

\* the handler hits a nil dereference, or the step leaves the model's bounds
Panic(st) == [st EXCEPT !.panicked = TRUE]

\* the handler notes what it did
Note(st, ev) == [st EXCEPT !.log = Append(@, ev)]

\* the operation `by` took the state from `before` to `after`: the history
\* keeps that it cleared the EOM flag, if it did
Cleared(before, after, by) ==
  IF before.EOM /\ ~after.EOM
  THEN Note(after, [ev |-> "eomclear", by |-> by, done |-> before.EOMDone,
                    sys |-> before.EOMSys, processed |-> after.EOMProcessed,
                    left |-> before.EOMProcessed])
  ELSE after

(***************************************************************************)
(* Hashes.  A message hash is a number; a serial hash is a term over       *)
(* message hashes, written in prefix form so that distinct terms are       *)
(* distinct sequences (CreateHash is collision free).                      *)
(***************************************************************************)
Leaf(h) == <<h>>

\* primitives.CreateHash(a, b)
CreateHash(a, b) == <<0>> \o a \o b

\* MsgHash of the DirectoryBlockSignature of a server for (height, vm)
DBSigHash(h, vm) == 100 + (h * 10) + vm

\* MsgHash of the EOM of (height, vm, minute)
EOMHash(h, vm, minute) == 1000 + (h * 100) + (vm * 10) + minute

\* MsgHash of an Ack: a hash of its content
AckHash(dbheight, vm, ht, mh) == 10000 * (1 + dbheight + (10 * vm) + (100 * ht)) + mh

(***************************************************************************)
(* Messages.  Every message has the fields of NoMsg; a DBStateMsg has      *)
(* IsInDB, ChainOK and Txs besides, a MissingMsgResponse has Inner,        *)
(* AckResponse and MsgResponse.  BodyOK and SigOK say what the checks of   *)
(* ProcessDBSig find in a DirectoryBlockSignature (src 1667, 1675-1687),   *)
(* Paid that UpdateECTransaction accepts a commit (src 1174, 1198) and     *)
(* HasChain that a reveal finds or makes its entry block (src 1233, 1256), *)
(* V what the checks of the Validate method find in the message itself.    *)
(***************************************************************************)
NoAck ==
  [Nil |-> TRUE, Type |-> "Ack", MsgHash |-> 0, DBHeight |-> 0, VMIndex |-> 0,
   Height |-> 0, Minute |-> 0, MessageHash |-> 0, SerialHash |-> <<>>,
   Old |-> FALSE, Local |-> FALSE, V |-> 1, Obj |-> 0]

NoMsg ==
  [Nil |-> TRUE, Type |-> "none", MsgHash |-> 0, VMIndex |-> 0, DBHeight |-> 0,
   Minute |-> 0, Local |-> FALSE, EntryHash |-> 0, Credits |-> 0,
   SysHeight |-> 0, Old |-> FALSE, Matches |-> FALSE, BodyOK |-> TRUE,
   SigOK |-> TRUE, Height |-> 0, Paid |-> TRUE, HasChain |-> TRUE, V |-> 1, Obj |-> 0]

\* an empty slot of a VM list (vm.List[i] == nil)
NilSlot == [Ack |-> NoAck, Msg |-> NoMsg]

IsNilSlot(sl) == sl.Msg.Nil

\* ack.GetHash() is the hash of the message the ack is for
GetHash(m) == IF m.Type = "Ack" THEN m.MessageHash ELSE m.MsgHash

\* msg.Validate(state): a reveal waits (0) for its commit; any other message
\* is judged by its content
Validate(st, m) ==
  IF m.Type = "Reveal" /\ MapGet(st.Commits, m.EntryHash, NoMsg).Nil /\ m.V = 1
  THEN 0
  ELSE m.V

\* Replay.Valid(kind, hash, timestamp, now): the timestamp is inside the
\* window (not Old) and the hash has not been sealed
ReplayValid(st, kind, h, old) == ~old /\ h \notin st.Replay[kind]

\* Replay.IsTSValid_(kind, hash, timestamp, now): seals the hash when valid
ReplaySeal(st, kind, h, old) ==
  IF old THEN st ELSE [st EXCEPT !.Replay[kind] = @ \cup {h}]

(***************************************************************************)
(* NewAck (src 2234-2262).                                                 *)
(***************************************************************************)
\* the SerialHash NewAck gives the ack that follows `last` (src 2256)
NextSerialHash(last, msgHash) == CreateHash(Leaf(last.MessageHash), Leaf(msgHash))

\* NewAck cannot run: the slot GetAckAt reads is nil (nil dereference)
NewAckPanics(st, m) ==
  LET list == st.ProcessLists[st.LeaderPL].VMs[m.VMIndex].List
  IN Len(list) > 0 /\ IsNilSlot(list[Len(list)])

NewAck(st, m) ==
  LET list == st.ProcessLists[st.LeaderPL].VMs[m.VMIndex].List
      listlen == Len(list)
      last == list[listlen].Ack
      ht == IF listlen = 0 THEN 0 ELSE last.Height + 1
  IN [Nil |-> FALSE,
      Type |-> "Ack",
      MsgHash |-> AckHash(st.LLeaderHeight, m.VMIndex, ht, m.MsgHash),
      DBHeight |-> st.LLeaderHeight,
      VMIndex |-> m.VMIndex,
      Minute |-> st.ProcessLists[st.LLeaderHeight].VMs[m.VMIndex].LeaderMinute,
      MessageHash |-> m.MsgHash,
      Height |-> ht,
      SerialHash |-> IF listlen = 0 THEN Leaf(m.MsgHash)
                     ELSE NextSerialHash(last, m.MsgHash),
      Old |-> FALSE,
      Local |-> FALSE,
      V |-> 1, Obj |-> 0]

(***************************************************************************)
(* ProcessList.AddToProcessList(ack, m): the pair goes to slot ack.Height  *)
(* of VM ack.VMIndex of the list, unless that slot is filled; a message    *)
(* that went in leaves Holding, and its ack leaves Acks (src 1098-1103).   *)
(***************************************************************************)
SlotFilled(pl, ack) ==
  LET list == pl.VMs[ack.VMIndex].List
  IN Len(list) > ack.Height /\ ~IsNilSlot(list[ack.Height + 1])

PutSlot(list, ht, sl) ==
  [i \in 1 .. Max(Len(list), ht + 1) |->
     IF i = ht + 1 THEN sl
     ELSE IF i <= Len(list) THEN list[i]
     ELSE NilSlot]

AddToProcessList(st, dbheight, ack, m) ==
  IF SlotFilled(st.ProcessLists[dbheight], ack) THEN st
  ELSE [st EXCEPT
          !.ProcessLists[dbheight].VMs[ack.VMIndex].List =
              PutSlot(@, ack.Height, [Ack |-> ack, Msg |-> m]),
          !.Acks = MapDelete(@, m.MsgHash),
          !.Holding = MapDelete(@, m.MsgHash)]

(***************************************************************************)
(* Commits (src 2065-2094).                                                *)
(***************************************************************************)
NextCommit(st, hash) == MapGet(st.Commits, hash, NoMsg)

IsHighestCommit(st, hash, msg) ==
  LET cur == MapGet(st.Commits, hash, NoMsg)
  IN ~ \/ /\ cur.Type = "CommitEntry" /\ msg.Type = "CommitEntry"
          /\ cur.Credits >= msg.Credits
       \/ /\ cur.Type = "CommitChain" /\ msg.Type = "CommitChain"
          /\ cur.Credits >= msg.Credits

PutCommit(st, hash, msg) ==
  IF IsHighestCommit(st, hash, msg)
  THEN [st EXCEPT !.Commits = MapPut(@, hash, msg)]
  ELSE st

(***************************************************************************)
(* AddDBState (src 384-442).                                               *)
(***************************************************************************)
RECURSIVE UpdateLoop(_)
RECURSIVE FollowerExecute(_, _)

\* DBStates.NewDBState: nil when the ledger already holds a saved DBState
\* of that height (the ledger is append-only); otherwise the DBState of
\* that height, created if the ledger has none
NewDBStateIsNil(st, ht) ==
  st.DBStates[ht].Exists /\ st.DBStates[ht].Saved

NewDBState(st, isNew, ht) ==
  IF st.DBStates[ht].Exists THEN st
  ELSE [st EXCEPT !.DBStates[ht] = [NilDBState EXCEPT !.Exists = TRUE, !.IsNew = isNew]]

\* AdvancesLeaderHeight, taking every block for a block above
AdvancesLeaderHeightAlways(st, ht) == ht > 0

\* the branch of AddDBState that moves the leader height (src 407)
AdvancesLeaderHeight(st, ht) == ht > st.LLeaderHeight

\* src 407-433: the state is reset for the block that follows block ht.  The
\* mutexes of the temporary balances of the leader's list are locked at src
\* 423 and 426; their unlocks are deferred (src 424, 427), so they run when
\* AddDBState returns and the mutexes are still held at src 434
AddDBStateLock(st, ht) ==
  [SetLeader(Cleared(st, [st EXCEPT !.Syncing = FALSE, !.EOM = FALSE,
                                    !.DBSig = FALSE,
                                    !.LLeaderHeight = ht, !.CurrentMinute = 0,
                                    !.EOMProcessed = 0, !.DBSigProcessed = 0,
                                    !.RunLeader = FALSE, !.LeaderPL = ht,
                                    !.FactoidBalancesT = {},
                                    !.ECBalancesT = {}],
                     "AddDBState"), 0)
     EXCEPT !.ProcessLists[ht].FactoidBalancesTMutex = TRUE,
            !.ProcessLists[ht].ECBalancesTMutex = TRUE]

\* the deferred unlocks of src 424 and 427, run as AddDBState returns
AddDBStateUnlock(st, ht) ==
  [st EXCEPT !.ProcessLists[ht].FactoidBalancesTMutex = FALSE,
             !.ProcessLists[ht].ECBalancesTMutex = FALSE]

\* src 407-436: the state is reset for the block that follows block ht, and
\* the process lists are run until they are idle
AddDBStateReset(st, ht) ==
  IF ~AdvancesLeaderHeight(st, ht) THEN st
  ELSE AddDBStateUnlock(UpdateLoop(Ret(AddDBStateLock(st, ht), TRUE)), ht)

\* src 437-440
AddDBStateFloor(st, ht) ==
  IF ht = 0 /\ st.LLeaderHeight < 1 THEN [st EXCEPT !.LLeaderHeight = 1] ELSE st

\* the networks a node may be configured for
Networks == {"MAIN", "main", "TEST", "LOCAL"}

\* the key Merkle roots a directory block may have: that of the canonical
\* chain, or another
KeyMRs == {"canon", "fork"}

\* constants.CheckPoints: the key Merkle roots fixed for some heights
CheckPoints == [h \in {1} |-> "canon"]

\* CheckDBKeyMR, checking on every network
CheckDBKeyMRAnyNetwork(st, ht, hash) ==
  ht \in DOMAIN CheckPoints /\ CheckPoints[ht] # hash

\* CheckDBKeyMR (src 249-259): TRUE when it returns an error
CheckDBKeyMR(st, ht, hash) ==
  IF st.Network # "MAIN" /\ st.Network # "main" THEN FALSE
  ELSE ht \in DOMAIN CheckPoints /\ CheckPoints[ht] # hash

\* the state AddDBState leaves for a directory block of height ht and key
\* Merkle root keyMR; its result is nil iff NewDBStateIsNil
AddDBState(st, isNew, ht, keyMR) ==
  IF NewDBStateIsNil(st, ht) THEN st
  ELSE IF CheckDBKeyMR(st, ht, keyMR) THEN Panic(st)
  ELSE AddDBStateFloor(AddDBStateReset(NewDBState(st, isNew, ht), ht), ht)

(***************************************************************************)
(* FollowerExecuteMsg (src 448-461), LeaderExecuteDBSig (src 1005-1041).   *)
(***************************************************************************)
\* pl.AddToProcessList(ack, m) on the list of the ack's height (src 459, 1040)
AddAcked(st, ack, m) ==
  AddToProcessList(st, ack.DBHeight, ack, [m EXCEPT !.Minute = ack.Minute])

FollowerExecuteMsg(st, m) ==
  LET a == [st EXCEPT !.Holding = MapPut(@, m.MsgHash, m)]
      ack == MapGet(a.Acks, m.MsgHash, NoAck)
  IN IF ack.Nil THEN a
     ELSE AddAcked(a, ack, m)

NewDBSig(h, vm) ==
  [NoMsg EXCEPT !.Nil = FALSE, !.Type = "DBSig", !.MsgHash = DBSigHash(h, vm),
                !.VMIndex = vm, !.DBHeight = h, !.Local = TRUE]

LeaderExecuteDBSig(st, dbs) ==
  LET pl == st.ProcessLists[dbs.DBHeight]
      m == [dbs EXCEPT !.SysHeight = pl.SysHeight]
  IN IF dbs.DBHeight # st.LLeaderHeight THEN FollowerExecuteMsg(st, dbs)
     ELSE IF Len(pl.VMs[dbs.VMIndex].List) > 0 THEN st
     ELSE IF ~ReplayValid(st, "INTERNAL", m.MsgHash, m.Old)
       THEN [st EXCEPT !.Holding = MapDelete(@, m.MsgHash)]
     ELSE IF NewAckPanics(st, m) THEN Panic(st)
     ELSE AddAcked(st, NewAck(st, m), m)

(***************************************************************************)
(* ProcessEOM (src 1339-1555).                                             *)
(***************************************************************************)
\* markNoFault(pl, vmIndex)
markNoFault(pl, vmIndex) ==
  [pl EXCEPT !.VMs[vmIndex].WhenFaulted = 0, !.VMs[vmIndex].FaultFlag = 0]

\* src 1367-1390: everything is done for all EOMs; let the VM go on
\* a tail that lets go of the sync one EOM early
EOMTailEarly(st, dbheight) ==
  LET dbstate == GetDBState(st, dbheight - 1)
  IN IF ~dbstate.Exists \/ ~dbstate.Saved THEN Ret(st, FALSE)
     ELSE IF st.EOMProcessed - 1 <= 1
       THEN Ret(Cleared(st, [st EXCEPT !.EOM = FALSE, !.EOMDone = FALSE,
                                       !.Syncing = FALSE, !.EOMProcessed = 0],
                        "ProcessEOM"), TRUE)
       ELSE Ret([st EXCEPT !.EOMProcessed = @ - 1], TRUE)

\* src 1367-1390: the minute is done; each EOM leaves the sync
EOMTail(st, dbheight) ==
  LET dbstate == GetDBState(st, dbheight - 1)
  IN IF ~dbstate.Exists \/ ~dbstate.Saved THEN Ret(st, FALSE)
     ELSE IF st.EOMProcessed - 1 <= 0
       THEN Ret(Cleared(st, [st EXCEPT !.EOM = FALSE, !.EOMDone = FALSE,
                                       !.Syncing = FALSE, !.EOMProcessed = 0],
                        "ProcessEOM"), TRUE)
       ELSE Ret([st EXCEPT !.EOMProcessed = @ - 1], TRUE)

\* an opening of the EOMs that leaves Syncing as it is
EOMOpenUnsynced(st, dbheight, e) ==
  [st EXCEPT !.EOMSys = FALSE, !.EOM = TRUE,
             !.EOMLimit = Len(st.ProcessLists[st.LeaderPL].FedServers),
             !.EOMMinute = e.Minute,
             !.EOMProcessed = 0,
             !.ProcessLists[dbheight].VMs =
                 [i \in VMs |-> [@[i] EXCEPT !.Synced = FALSE]]]

\* src 1393-1408: once for all VMs at the start of a minute's EOMs
EOMOpen(st, dbheight, e) ==
  [st EXCEPT !.EOMSys = FALSE, !.Syncing = TRUE, !.EOM = TRUE,
             !.EOMLimit = Len(st.ProcessLists[st.LeaderPL].FedServers),
             !.EOMMinute = e.Minute,
             !.EOMProcessed = 0,
             !.ProcessLists[dbheight].VMs =
                 [i \in VMs |-> [@[i] EXCEPT !.Synced = FALSE]]]

\* a count that takes each EOM for two
EOMPerVMTwice(st, dbheight, e) ==
  LET a == [st EXCEPT !.ProcessLists[dbheight].VMs[e.VMIndex].LeaderMinute = @ + 1,
                      !.EOMProcessed = @ + 2,
                      !.ProcessLists[dbheight].VMs[e.VMIndex].Synced = TRUE]
      b == [a EXCEPT !.ProcessLists[dbheight] = markNoFault(@, e.VMIndex)]
  IN [b EXCEPT !.ProcessLists[b.LeaderPL].SysHighest = Max(@, e.SysHeight)]

\* src 1411-1424: once for each EOM
EOMPerVM(st, dbheight, e) ==
  LET a == [st EXCEPT !.ProcessLists[dbheight].VMs[e.VMIndex].LeaderMinute = @ + 1,
                      !.EOMProcessed = @ + 1,
                      !.ProcessLists[dbheight].VMs[e.VMIndex].Synced = TRUE]
      b == [a EXCEPT !.ProcessLists[dbheight] = markNoFault(@, e.VMIndex)]
  IN [b EXCEPT !.ProcessLists[b.LeaderPL].SysHighest = Max(@, e.SysHeight)]

\* a ProcessEOM that does not count the EOMs it has processed
EOMCompletesUncounted(st) ==
  /\ st.ProcessLists[st.LeaderPL].SysHeight >= st.ProcessLists[st.LeaderPL].SysHighest
  /\ ~st.EOMDone

\* src 1426, 1432: all EOM markers are processed
EOMCompletes(st) ==
  /\ st.ProcessLists[st.LeaderPL].SysHeight >= st.ProcessLists[st.LeaderPL].SysHighest
  /\ st.EOMProcessed = st.EOMLimit
  /\ ~st.EOMDone

\* a ProcessEOM that moves two minutes on
NextMinuteSkips(st, e) ==
  IF ~st.Leader THEN e.Minute + 2 ELSE st.CurrentMinute + 2

\* src 1450-1454: a follower takes the minute of the EOM, then the minute moves on
NextMinute(st, e) ==
  IF ~st.Leader THEN e.Minute + 1 ELSE st.CurrentMinute + 1

\* src 1459-1466
MinuteStep(st, dbheight) ==
  LET dbstate == GetDBState(st, dbheight - 1)
      a == IF st.CurrentMinute = 1 /\ ~dbstate.Saved
           THEN [st EXCEPT !.DBStates[dbheight - 1].ReadyToSave = TRUE]
           ELSE st
      b == [a EXCEPT !.LeaderPL = a.LLeaderHeight]
  IN SetLeader(b, b.CurrentMinute)

MinuteStepPanics(st, dbheight) ==
  st.CurrentMinute = 1 /\ ~GetDBState(st, dbheight - 1).Exists

\* DBStates.FixupLinks(prev, d): the links of a new block are patched
FixupLinks(st, h) ==
  IF h > 0 /\ GetDBState(st, h - 1).Exists
  THEN [st EXCEPT !.DBStates[h].IsNew = FALSE]
  ELSE st

\* DBStates.ProcessBlocks(d): a block whose links are patched is locked
ProcessBlocks(st, h) ==
  IF st.DBStates[h].Exists /\ ~st.DBStates[h].Locked /\ ~st.DBStates[h].IsNew
  THEN [st EXCEPT !.DBStates[h].Locked = TRUE]
  ELSE st

\* a block close that forgets it has sent the DirectoryBlockSignature
CloseDBSigUnmarked(st) ==
  IF st.Leader /\ ~st.ProcessLists[st.LLeaderHeight].DBSigAlreadySent
  THEN LeaderExecuteDBSig(st, NewDBSig(st.LLeaderHeight, st.LeaderVMIndex))
  ELSE st

\* src 1504-1528: the leader signs the block it just closed
CloseDBSig(st) ==
  IF st.Leader /\ ~st.ProcessLists[st.LLeaderHeight].DBSigAlreadySent
  THEN LeaderExecuteDBSig(
         [st EXCEPT !.ProcessLists[st.LLeaderHeight].DBSigAlreadySent = TRUE],
         NewDBSig(st.LLeaderHeight, st.LeaderVMIndex))
  ELSE st

\* src 1467-1530: the block closes
\* a block close that steps the leader height back
BlockCloseNextBack(st) ==
  [CloseDBSig(
     [SetLeader([st EXCEPT !.CurrentMinute = 0, !.LLeaderHeight = @ - 1,
                           !.LeaderPL = st.LLeaderHeight - 1], 0)
        EXCEPT !.DBSigProcessed = 0])
     EXCEPT !.Saving = TRUE]

\* src 1489-1530; st is the state after the block is added to the ledger
BlockCloseNext(st) ==
  [CloseDBSig(
     [SetLeader([st EXCEPT !.CurrentMinute = 0, !.LLeaderHeight = @ + 1,
                           !.LeaderPL = st.LLeaderHeight + 1], 0)
        EXCEPT !.DBSigProcessed = 0])
     EXCEPT !.Saving = TRUE]

BlockClose(st) ==
  IF st.LeaderPL > MaxHeight \/ st.LLeaderHeight >= MaxHeight THEN Panic(st)
  ELSE BlockCloseNext(
         ProcessBlocks(
           FixupLinks(AddDBState(st, TRUE, st.LeaderPL, st.env.keyMR), st.LeaderPL),
           st.LeaderPL))

\* src 1542-1548
PurgeAcks(st) ==
  [st EXCEPT !.Acks = [h \in {k \in DOMAIN @ : @[k].DBHeight >= st.LLeaderHeight} |-> @[h]]]

\* the DirectoryBlockSignatures in the lists of the process list of height h
DBSigsOf(st, h) ==
  UNION {{[vm |-> i, at |-> j,
            DBHeight |-> st.ProcessLists[h].VMs[i].List[j].Msg.DBHeight] :
            j \in {k \in 1 .. Len(st.ProcessLists[h].VMs[i].List) :
                     st.ProcessLists[h].VMs[i].List[k].Msg.Type = "DBSig"}} :
          i \in VMs}

\* what the history keeps of a block close: a is the state the close began
\* in, r the state it left (src 1467-1530)
CloseView(a, r) ==
  [from |-> a.LLeaderHeight,
   added |-> GetDBState(r, a.LLeaderHeight).Exists,
   height |-> r.LLeaderHeight, minute |-> r.CurrentMinute,
   dbsigProcessed |-> r.DBSigProcessed, saving |-> r.Saving,
   leader |-> r.Leader, vm |-> r.LeaderVMIndex,
   sentBefore |-> a.ProcessLists[r.LLeaderHeight].DBSigAlreadySent,
   sentAfter |-> r.ProcessLists[r.LLeaderHeight].DBSigAlreadySent,
   room |-> r.ProcessLists[r.LLeaderHeight].VMs[r.LeaderVMIndex].List # <<>>
              => a.ProcessLists[r.LLeaderHeight].VMs[r.LeaderVMIndex].List = <<>>,
   dbsigs |-> DBSigsOf(r, r.LLeaderHeight) \ DBSigsOf(a, r.LLeaderHeight)]

\* what the history keeps of a minute's completion: the state it was decided
\* in, and what the block close did when the minute was the last
MinuteEvent(st, dbheight, a, r) ==
  [ev |-> "minute",
   eoms |-> {IF st.ProcessLists[dbheight].VMs[i - 1].Height
                  < Len(st.ProcessLists[dbheight].VMs[i - 1].List)
             THEN LET head == st.ProcessLists[dbheight].VMs[i - 1].List[
                                st.ProcessLists[dbheight].VMs[i - 1].Height + 1].Msg
                  IN IF head.Type = "EOM" THEN head.Minute ELSE -1
             ELSE -1 : i \in 1 .. Len(st.ProcessLists[dbheight].FedServers)},
   done |-> a.EOMDone,
   ecBefore |-> st.ProcessLists[dbheight].ECMinutes,
   ecAfter |-> a.ProcessLists[dbheight].ECMinutes,
   ebBefore |-> st.ProcessLists[dbheight].NewEBlocks,
   ebAfter |-> a.ProcessLists[dbheight].NewEBlocks,
   close |-> IF a.CurrentMinute = BlockMinutes THEN CloseView(a, r) ELSE <<>>,
   synced |-> \A i \in 1 .. Len(st.ProcessLists[dbheight].FedServers) :
                 st.ProcessLists[dbheight].VMs[i - 1].Synced,
   processed |-> st.EOMProcessed,
   feds |-> Len(st.ProcessLists[dbheight].FedServers),
   leader |-> st.Leader,
   height |-> st.LLeaderHeight,
   minute |-> a.CurrentMinute - 1,
   peak |-> a.CurrentMinute,
   closed |-> a.CurrentMinute = BlockMinutes]

\* src 1432-1549
\* src 1456-1549; st is the state the minute completes in, a the state
\* after the minute moved on
EOMCompleteStep(a, dbheight) ==
  IF a.CurrentMinute < BlockMinutes
    THEN IF MinuteStepPanics(a, dbheight) THEN Panic(a)
         ELSE MinuteStep(a, dbheight)
  ELSE IF a.CurrentMinute = BlockMinutes THEN BlockClose(a)
  ELSE a

\* src 1542-1548; r is the state after the minute's step or the block close
EOMCompleteNote(st, a, r, dbheight) ==
  PurgeAcks(Note(r, MinuteEvent(st, dbheight, a, r)))

EOMCompleteNext(st, a, dbheight) ==
  EOMCompleteNote(st, a, EOMCompleteStep(a, dbheight), dbheight)

\* an end of minute that numbers the minute twice in the entry-credit block
EndOfMinuteTwice(pl, e) ==
  [pl EXCEPT !.NewEBlocks = [c \in DOMAIN @ |-> Append(@[c], <<"eom", e.Minute + 1>>)],
             !.ECMinutes = Append(Append(@, e.Minute + 1), e.Minute + 1)]

\* src 1434-1443: every new entry block of the list gets the end-of-minute
\* marker, the entry-credit block the minute number
EndOfMinute(pl, e) ==
  [pl EXCEPT !.NewEBlocks = [c \in DOMAIN @ |-> Append(@[c], <<"eom", e.Minute + 1>>)],
             !.ECMinutes = Append(@, e.Minute + 1)]

EOMComplete(st, dbheight, e) ==
  EOMCompleteNext(st, [st EXCEPT !.EOMDone = TRUE,
                                 !.ProcessLists[dbheight] = EndOfMinute(@, e),
                                 !.CurrentMinute = NextMinute(st, e)],
                  dbheight)

\* what the history keeps of an EOM that ProcessEOM returns true for: a is
\* the state the tail began in, r what the tail returned (src 1367-1390)
EOMOut(a, r, dbheight, e) ==
  IF ~r.ret THEN r
  ELSE Ret(Note(r.s, [ev |-> "eomout", height |-> dbheight, minute |-> e.Minute,
                      vm |-> e.VMIndex, open |-> a.EOM,
                      synced |-> a.ProcessLists[dbheight].VMs[e.VMIndex].Synced,
                      below |-> GetDBState(a, dbheight - 1).Exists
                                  /\ GetDBState(a, dbheight - 1).Saved]),
           TRUE)

\* the test of src 1349-1351 (s.EOM and e.DBHeight # dbheight) has an empty
\* body: it changes nothing and returns nothing
ProcessEOM(st, dbheight, e) ==
  IF st.Syncing /\ ~st.EOM THEN Ret(st, FALSE)
  ELSE IF st.EOM /\ e.Minute > st.EOMMinute THEN Ret(st, FALSE)
  ELSE LET pl == st.ProcessLists[dbheight]
           vm == pl.VMs[e.VMIndex]
           a == IF pl.SysHeight >= e.SysHeight THEN [st EXCEPT !.EOMSys = TRUE] ELSE st
       IN IF a.EOMDone /\ a.EOMSys THEN EOMOut(a, EOMTail(a, dbheight), dbheight, e)
          ELSE IF ~a.EOM THEN Ret(EOMOpen(a, dbheight, e), FALSE)
          ELSE IF ~vm.Synced THEN Ret(EOMPerVM(a, dbheight, e), FALSE)
          ELSE IF EOMCompletes(a) THEN Ret(EOMComplete(a, dbheight, e), FALSE)
          ELSE Ret(a, FALSE)

(***************************************************************************)
(* ReviewHolding (src 268-381).  What the pass cannot read from the State  *)
(* comes in env: review (the input queue is below its low-water mark and   *)
(* 300 ms have passed), desc (the order in which Go ranges over the        *)
(* Holding map: ascending or descending hashes) and what the Expire and    *)
(* Resend methods of the held messages answer.                             *)
(***************************************************************************)
\* a pruning whose tests of EOMs and DirectoryBlockSignatures are not
\* guarded by saved > 0 and highest > 2: the subtraction is of uint32, and
\* below 3 it wraps to a number above every height
TypePruneUnguarded(v, saved, highest) ==
  IF v.Type = "MMR"
    THEN IF v.Inner = "FullFault" /\ v.DBHeight < saved THEN "drop" ELSE "skip"
  ELSE IF v.Type \in {"ServerFault", "FullFault"} /\ v.DBHeight < saved THEN "drop"
  ELSE IF v.Type \in {"EOM", "DBSig"}
          /\ (v.DBHeight <= saved
              \/ highest < HoldingBehind
              \/ v.DBHeight < highest - HoldingBehind)
    THEN "drop"
  ELSE IF v.Type = "DBState" /\ saved > 0 /\ v.DBHeight < saved - 1 THEN "drop"
  ELSE "go"

\* src 302-345: the type-specific pruning; "drop" deletes and continues,
\* "skip" continues (a MissingMsgResponse is never reviewed further)
TypePrune(v, saved, highest) ==
  IF v.Type = "MMR"
    THEN IF v.Inner = "FullFault" /\ v.DBHeight < saved THEN "drop" ELSE "skip"
  ELSE IF v.Type \in {"ServerFault", "FullFault"} /\ v.DBHeight < saved THEN "drop"
  ELSE IF v.Type \in {"EOM", "DBSig"}
          /\ ((v.DBHeight <= saved /\ saved > 0)
              \/ (highest > 2 /\ v.DBHeight < highest - HoldingBehind))
    THEN "drop"
  ELSE IF v.Type = "DBState" /\ saved > 0 /\ v.DBHeight < saved - 1 THEN "drop"
  ELSE "go"

\* one turn of the loop of src 295-378, for the held message of hash k
ReviewOne(st, k, saved, highest) ==
  LET v == st.Holding[k]
      a == IF highest - saved > HoldingMaxBacklog
           THEN [st EXCEPT !.Holding = MapDelete(@, k)]
           ELSE st
      del == [a EXCEPT !.Holding = MapDelete(@, k)]
      tp == TypePrune(v, saved, highest)
  IN IF tp = "drop" THEN del
     ELSE IF tp = "skip" THEN a
     ELSE IF ~ReplayValid(a, "INTERNAL", v.MsgHash, v.Old) THEN del
     ELSE IF st.env.Expire THEN del
     ELSE IF st.env.Resend /\ Validate(a, v) = 1
       THEN Note(a, [ev |-> "resent", hash |-> k])
     ELSE IF Validate(a, v) < 0 THEN del
     ELSE [del EXCEPT !.XReview = Append(@, v)]

\* the next key of the range over the Holding map
NextKey(keys, desc) ==
  CHOOSE k \in keys : \A j \in keys : IF desc THEN j <= k ELSE k <= j

RECURSIVE ReviewLoop(_, _, _, _)
ReviewLoop(st, keys, saved, highest) ==
  IF keys = {} THEN st
  ELSE LET k == NextKey(keys, st.env.desc)
       IN ReviewLoop(ReviewOne(st, k, saved, highest), keys \ {k}, saved, highest)

\* src 270-378, for the heights read at src 292-293
ReviewPass(st, saved, highest) ==
  IF Len(st.XReview) > 0 \/ ~st.env.review THEN st
  ELSE ReviewLoop([st EXCEPT !.XReview = <<>>], DOMAIN st.Holding, saved, highest)

ReviewHolding(st) == ReviewPass(st, GetHighestSavedBlk(st), st.HighestKnown)

(***************************************************************************)
(* ProcessDBSig (src 1579-1737).  dbs is the message of slot j of the list *)
(* of VM i of the process list: the handler marks it there (dbs.Matches).  *)
(***************************************************************************)
\* pl.Complete() of the list of height d: its block is saved, or every VM
\* has gone through its ten minutes and all of its list
PLComplete(st, d) ==
  LET pl == st.ProcessLists[d]
  IN \/ d <= GetHighestSavedBlk(st)
     \/ \A i \in 1 .. Len(pl.FedServers) :
          /\ pl.VMs[i - 1].LeaderMinute >= BlockMinutes
          /\ pl.VMs[i - 1].Height >= Len(pl.VMs[i - 1].List)

\* pl.CheckDiffSigTally(): not a majority of the signatures disagree
CheckDiffSigTally(pl) ==
  ~(pl.DiffSigTally > 0 /\ 2 * pl.DiffSigTally > Len(pl.FedServers))

\* src 1603-1616
DBSigTail(st, dbheight, dbs) ==
  LET a == [st EXCEPT !.DBSigProcessed = @ - 1]
      b == IF a.DBSigProcessed <= 0
           THEN [a EXCEPT !.EOMDone = FALSE, !.EOMSys = FALSE, !.EOM = FALSE,
                          !.DBSig = FALSE, !.Syncing = FALSE]
           ELSE a
  IN Cleared(st, [b EXCEPT !.ProcessLists[dbheight].VMs[dbs.VMIndex].Signed = TRUE],
             "ProcessDBSig")

\* src 1619-1631
DBSigOpen(st, dbheight) ==
  [st EXCEPT !.DBSigLimit = Len(st.ProcessLists[dbheight].FedServers),
             !.DBSigProcessed = 0, !.DBSig = TRUE, !.Syncing = TRUE,
             !.DBSigDone = FALSE,
             !.ProcessLists[dbheight].DiffSigTally = 0,
             !.ProcessLists[dbheight].VMs =
                 [i \in VMs |-> [@[i] EXCEPT !.Synced = FALSE]]]

\* src 1636-1649: the previous process list is not complete, and its block
\* is neither locked, saved nor in the database
DBSigPrevIncomplete(st, dbs) ==
  LET prev == GetDBState(st, dbs.DBHeight - 1)
  IN /\ st.LLeaderHeight > 0
     /\ GetHighestCompletedBlk(st) + 1 < st.LLeaderHeight
     /\ dbs.DBHeight - 1 \in PLHeights
     /\ ~PLComplete(st, dbs.DBHeight - 1)
     /\ (~prev.Exists \/ (~prev.Locked /\ ~prev.Saved))
     /\ ~(prev.Exists /\ prev.Saved)

\* src 1657-1663: the previous directory block cannot be had
DBSigPrevMissing(st, dbheight) ==
  LET dbstate == GetDBState(st, dbheight - 1)
  IN /\ ~(dbstate.Exists /\ dbstate.Saved)
     /\ (~dbstate.Exists \/ ~(~dbstate.IsNew \/ dbstate.Locked \/ dbstate.Saved))

\* src 1634-1695: once for each DBSig; ret is FALSE when the handler returns there
DBSigPerVM(st, dbheight, dbs, i, j) ==
  IF DBSigPrevIncomplete(st, dbs) \/ DBSigPrevMissing(st, dbheight) THEN Ret(st, FALSE)
  ELSE IF ~dbs.BodyOK
    THEN IF st.ProcessLists[dbheight].DiffSigTally >= MaxTally
         THEN Ret(Panic(st), FALSE)
         ELSE Ret([st EXCEPT !.ProcessLists[dbheight].DiffSigTally = @ + 1], FALSE)
  ELSE IF ~dbs.SigOK THEN Ret(st, FALSE)
  ELSE Ret([st EXCEPT !.DBSigProcessed = @ + 1,
                      !.ProcessLists[dbheight].VMs[i].List[j].Msg.Matches = TRUE,
                      !.ProcessLists[dbheight].VMs[dbs.VMIndex].Synced = TRUE],
           TRUE)

\* src 1704-1713: some VM starts with something else than a matching DBSig
DBSigScanFails(pl) ==
  \E i \in 1 .. Len(pl.FedServers) :
    LET list == pl.VMs[i - 1].List
    IN Len(list) > 0 /\ (list[1].Msg.Type # "DBSig" \/ ~list[1].Msg.Matches)

\* every federated VM of the list that holds something holds first a DBSig
\* that matched, and a DBSig that matched passed both checks
AllMatched(pl) ==
  \A k \in 1 .. Len(pl.FedServers) :
    LET list == pl.VMs[k - 1].List
    IN Len(list) > 0 =>
         /\ list[1].Msg.Type = "DBSig" /\ list[1].Msg.Matches
         /\ list[1].Msg.BodyOK /\ list[1].Msg.SigOK

\* the state of a node when the DBSigs of dbheight are all in
DBSigClosedRight(st, dbheight) ==
  LET lpl == st.ProcessLists[st.LeaderPL]
  IN /\ lpl.SysHeight >= lpl.SysHighest
     /\ st.DBSigProcessed >= st.DBSigLimit
     /\ st.DBSigLimit = Len(st.ProcessLists[dbheight].FedServers)
     /\ AllMatched(st.ProcessLists[dbheight])

\* src 1725-1727; the history keeps how the node stood
DBSigClose(st, dbheight) ==
  LET a == [ReviewHolding(st) EXCEPT !.Saving = FALSE, !.DBSigDone = TRUE]
  IN Note(a, [ev |-> "dbsigdone", height |-> dbheight, saving |-> st.Saving,
              done |-> st.DBSigDone, right |-> DBSigClosedRight(a, dbheight)])

\* DBSigFinish without the scan of src 1704-1713
DBSigFinishUnscanned(st, dbheight) ==
  LET lpl == st.ProcessLists[st.LeaderPL]
  IN IF lpl.SysHeight >= lpl.SysHighest /\ ~st.DBSigDone
        /\ st.DBSigProcessed >= st.DBSigLimit
     THEN IF ~st.KeepMismatch /\ ~CheckDiffSigTally(st.ProcessLists[dbheight])
            THEN st
          ELSE DBSigClose(st, dbheight)
     ELSE st

\* src 1697-1729
DBSigFinish(st, dbheight) ==
  LET lpl == st.ProcessLists[st.LeaderPL]
  IN IF lpl.SysHeight >= lpl.SysHighest /\ ~st.DBSigDone
        /\ st.DBSigProcessed >= st.DBSigLimit
     THEN IF DBSigScanFails(st.ProcessLists[dbheight])
            THEN [st EXCEPT !.DBSigProcessed = @ - 1]
          ELSE IF ~st.KeepMismatch /\ ~CheckDiffSigTally(st.ProcessLists[dbheight])
            THEN st
          ELSE DBSigClose(st, dbheight)
     ELSE st

ProcessDBSig(st, dbheight, dbs, i, j) ==
  IF st.Syncing /\ ~st.DBSig THEN Ret(st, FALSE)
  ELSE LET a == IF st.ProcessLists[dbheight].SysHeight >= dbs.SysHeight
                THEN [st EXCEPT !.DBSigSys = TRUE] ELSE st
       IN IF a.DBSigSys /\ a.DBSig /\ a.DBSigDone
          THEN Ret(DBSigTail(a, dbheight, dbs), TRUE)
          ELSE LET b == IF ~a.DBSig THEN DBSigOpen(a, dbheight) ELSE a
                   c == IF ~b.ProcessLists[dbheight].VMs[dbs.VMIndex].Synced
                        THEN DBSigPerVM(b, dbheight, dbs, i, j)
                        ELSE Ret(b, TRUE)
               IN IF ~c.ret THEN Ret(c.s, FALSE)
                  ELSE Ret(DBSigFinish(c.s, dbheight), FALSE)

(***************************************************************************)
(* ProcessCommitChain, ProcessCommitEntry (src 1169-1215) and              *)
(* ProcessRevealEntry (src 1217-1282).                                     *)
(***************************************************************************)
ProcessCommit(st, c) ==
  IF ~c.Paid THEN Ret(st, FALSE)
  ELSE LET h == c.EntryHash
           a == PutCommit(st, h, c)
           entry == MapGet(a.Holding, h, NoMsg)
       IN IF entry.Nil THEN Ret(a, TRUE)
          ELSE Ret([a EXCEPT !.XReview = Append(@, entry),
                             !.Holding = MapDelete(@, h)], TRUE)

ProcessCommitChain(st, dbheight, c) == ProcessCommit(st, c)

ProcessCommitEntry(st, dbheight, c) == ProcessCommit(st, c)

\* eb.AddEBEntry(msg.Entry) and PutNewEBlocks (src 1233-1240, 1256-1258): the
\* entry block of the chain, made when the list has none, gets the entry
AddEBEntry(st, dbheight, m) ==
  [st EXCEPT !.ProcessLists[dbheight].NewEBlocks =
               MapPut(@, m.EntryHash,
                      Append(MapGet(@, m.EntryHash, <<>>), <<"entry", m.EntryHash>>))]

ProcessRevealEntry(st, dbheight, m) ==
  IF m.HasChain
  THEN Ret(AddEBEntry([st EXCEPT !.Commits = MapDelete(@, m.EntryHash)], dbheight, m),
           TRUE)
  ELSE Ret([st EXCEPT !.Commits = MapDelete(@, m.EntryHash)], FALSE)

(***************************************************************************)
(* ProcessList.Process: every VM processes its list from vm.Height on, as  *)
(* long as the message there is present and its Process method returns     *)
(* true.  ProcessLists.UpdateState(dbheight) runs it on the list of        *)
(* dbheight and reports whether a VM moved on.                             *)
(***************************************************************************)
\* msg.Process(dbheight, state) for the message of slot j of VM i
MsgProcess(st, dbheight, m, i, j) ==
  CASE m.Type = "EOM" -> ProcessEOM(st, dbheight, m)
    [] m.Type = "DBSig" -> ProcessDBSig(st, dbheight, m, i, j)
    [] m.Type = "CommitChain" -> ProcessCommitChain(st, dbheight, m)
    [] m.Type = "CommitEntry" -> ProcessCommitEntry(st, dbheight, m)
    [] m.Type = "Reveal" -> ProcessRevealEntry(st, dbheight, m)
    [] OTHER -> Ret(st, TRUE)

\* the message of slot j of VM i is processed: the VM moves on, and the
\* replay filter has seen the message
Processed(st, dbheight, i, j) ==
  LET sl == st.ProcessLists[dbheight].VMs[i].List[j]
      a == [st EXCEPT !.ProcessLists[dbheight].VMs[i].Height = j]
  IN ReplaySeal(a, "INTERNAL", sl.Msg.MsgHash, sl.Msg.Old)

RECURSIVE ProcessVM(_, _, _)
\* r is what the Process method of slot j returned
ProcessVMNext(r, dbheight, i, j) ==
  IF ~r.ret \/ r.s.panicked THEN Ret(r.s, FALSE)
  ELSE Ret(ProcessVM(Processed(r.s, dbheight, i, j), dbheight, i).s, TRUE)

ProcessVM(st, dbheight, i) ==
  LET vm == st.ProcessLists[dbheight].VMs[i]
      j == vm.Height + 1
  IN IF st.panicked \/ vm.Height >= Len(vm.List) THEN Ret(st, FALSE)
     ELSE IF IsNilSlot(vm.List[j]) THEN Ret(st, FALSE)
     ELSE ProcessVMNext(MsgProcess(st, dbheight, vm.List[j].Msg, i, j), dbheight, i, j)

OrRet(r, ret) == Ret(r.s, r.ret \/ ret)

\* r.ret tells whether a VM before VM i moved on
RECURSIVE ProcessFrom(_, _, _)
ProcessFrom(r, dbheight, i) ==
  IF i >= Len(r.s.ProcessLists[dbheight].FedServers) THEN r
  ELSE ProcessFrom(OrRet(ProcessVM(r.s, dbheight, i), r.ret), dbheight, i + 1)

\* the first list from dbheight on that is neither complete nor the list
\* of a block that is locked and signed
RECURSIVE SkipDone(_, _)
SkipDone(st, d) ==
  IF d \in Heights
     /\ (PLComplete(st, d) \/ (st.DBStates[d].Exists /\ st.DBStates[d].Locked
                                /\ st.DBStates[d].Signed))
  THEN SkipDone(st, d + 1)
  ELSE d

\* the node moves up to the list it found
MoveUp(st, d) ==
  LET a == [st EXCEPT !.LLeaderHeight = d, !.CurrentMinute = 0, !.EOMProcessed = 0,
                      !.DBSigProcessed = 0, !.Syncing = FALSE, !.EOM = FALSE,
                      !.DBSig = FALSE, !.LeaderPL = d]
  IN SetLeader(Cleared(st, a, "ProcessLists.UpdateState"), 0)

ProcessListsUpdateState(st, dbheight) ==
  LET d == SkipDone(st, dbheight)
  IN ProcessFrom(Ret(IF d > st.LLeaderHeight THEN MoveUp(st, d) ELSE st, FALSE), d, 0)

\* src 434-435: for s.ProcessLists.UpdateState(s.LLeaderHeight) { }
\* r is what the last call returned
UpdateLoop(r) ==
  IF r.ret /\ ~r.s.panicked
  THEN UpdateLoop(ProcessListsUpdateState(r.s, r.s.LLeaderHeight))
  ELSE r.s

(***************************************************************************)
(* DBStates.UpdateState: the flags of every DBState advance                *)
(* IsNew -> ReadyToSave -> Locked -> Signed -> Saved; a block is saved     *)
(* after the block before it.                                              *)
(***************************************************************************)
SignDB(st, h) ==
  IF /\ st.DBStates[h].Exists /\ st.DBStates[h].Locked
     /\ \A i \in 1 .. Len(st.ProcessLists[h + 1].FedServers) :
          st.ProcessLists[h + 1].VMs[i - 1].Signed
  THEN [st EXCEPT !.DBStates[h].Signed = TRUE]
  ELSE st

SaveDBStateToDB(st, h) ==
  IF /\ st.DBStates[h].Exists /\ st.DBStates[h].ReadyToSave
     /\ st.DBStates[h].Signed /\ st.DBStates[h].Locked /\ ~st.DBStates[h].Saved
     /\ (h = 0 \/ GetDBState(st, h - 1).Saved)
  THEN [st EXCEPT !.DBStates[h].Saved = TRUE]
  ELSE st

RECURSIVE DBStatesFrom(_, _)
DBStatesFrom(st, h) ==
  IF h > MaxHeight THEN st
  ELSE DBStatesFrom(
         SaveDBStateToDB(SignDB(ProcessBlocks(FixupLinks(st, h), h), h), h), h + 1)

DBStatesUpdateState(st) == IF st.panicked THEN st ELSE DBStatesFrom(st, 0)

\* s.UpdateState(): the process list above the highest saved block, then
\* the ledger
UpdateState(st) ==
  IF st.panicked THEN st
  ELSE DBStatesUpdateState(
         ProcessListsUpdateState(st, Max(GetHighestSavedBlk(st), 1)).s)

(***************************************************************************)
(* DBStatesReceived (src 148-161, 570-591): the DBStates that came before  *)
(* their turn wait in a slice; index ix of the slice is for the block of   *)
(* height DBStatesReceivedBase + ix.  Index ix of the Go slice is index    *)
(* ix + 1 of the sequence; NoMsg is nil.                                   *)
(***************************************************************************)
\* src 587-590: the slice grows with nil until it has index ix, which gets m
PutReceived(list, ix, m) ==
  [i \in 1 .. Max(Len(list), ix + 1) |->
     IF i = ix + 1 THEN m
     ELSE IF i <= Len(list) THEN list[i]
     ELSE NoMsg]

\* src 574-580: the base moves up to the highest saved block; the slice
\* loses its first cut places when it has more than cut
RebaseReceived(r, saved) ==
  IF r.DBStatesReceivedBase < saved
  THEN LET cut == saved - r.DBStatesReceivedBase
       IN [r EXCEPT !.DBStatesReceived =
                      IF Len(@) > cut THEN SubSeq(@, cut + 1, Len(@)) ELSE @,
                    !.DBStatesReceivedBase = @ + cut]
  ELSE r

\* src 574-591: case 0 of FollowerExecuteDBState, the block may be valid
\* later.  With ix < 0 only the entries of the block are executed
BufferDBState(r, saved, msg) ==
  LET a == RebaseReceived(r, saved)
      ix == msg.DBHeight - a.DBStatesReceivedBase
  IN IF ix < 0 THEN a
     ELSE [a EXCEPT !.DBStatesReceived = PutReceived(@, ix, msg)]

\* src 150-161: Process moves the DBState that waits for the block above
\* the highest saved one to the process channel.  The second turn of the
\* loop finds nil at the index and breaks
DrainDBStates(r, saved) ==
  LET ix == saved - r.DBStatesReceivedBase + 1
  IN IF ix < 0 \/ ix >= Len(r.DBStatesReceived) THEN [r EXCEPT !.process = <<>>]
     ELSE IF r.DBStatesReceived[ix + 1].Nil THEN [r EXCEPT !.process = <<>>]
     ELSE [r EXCEPT !.process = <<r.DBStatesReceived[ix + 1]>>,
                    !.DBStatesReceived[ix + 1] = NoMsg]

(***************************************************************************)
(* FollowerExecuteDBState (src 547-695).  msg carries the height of its    *)
(* directory block (DBHeight), IsInDB, ChainOK (its links match the        *)
(* ledger's tail), KeyMR (its key Merkle root) and Txs (the                *)
(* signature hashes of its factoid transactions, the coinbase first).      *)
(* The node runs without FastBoot: no DBState has a SaveStruct.            *)
(***************************************************************************)
\* pdbstate.ValidNext(state, msg)
ValidNext(st, msg) ==
  LET saved == GetHighestSavedBlk(st)
      pdbstate == GetDBState(st, msg.DBHeight - 1)
  IN IF msg.DBHeight = 0 /\ saved = 0 THEN 1
     ELSE IF msg.DBHeight <= saved THEN -1
     ELSE IF msg.DBHeight > saved + 1 THEN 0
     ELSE IF ~pdbstate.Exists \/ ~pdbstate.Saved THEN 0
     ELSE IF ~msg.ChainOK THEN -1
     ELSE 1

\* a scan that covers height 2000 as well
ScannedHeightInclusive(dbheight) ==
  (dbheight > 0 /\ dbheight <= ScanLow) \/ dbheight > ScanHigh

\* src 635-637: the heights the double-spend scan covers
ScannedHeight(dbheight) ==
  (dbheight > 0 /\ dbheight < ScanLow) \/ dbheight > ScanHigh

\* src 652-664
MarkApplied(st, msg) ==
  IF ~msg.IsInDB
  THEN DBStatesUpdateState(
         [st EXCEPT !.DBStates[msg.DBHeight].ReadyToSave = TRUE,
                    !.DBStates[msg.DBHeight].Locked = FALSE,
                    !.DBStates[msg.DBHeight].Signed = TRUE])
  ELSE [st EXCEPT !.DBStates[msg.DBHeight].Saved = TRUE,
                  !.DBStates[msg.DBHeight].IsNew = FALSE,
                  !.DBStates[msg.DBHeight].Locked = FALSE]

\* src 667-674
ResetSync(st) ==
  Cleared(st, [st EXCEPT !.EOM = FALSE, !.EOMDone = FALSE, !.EOMSys = FALSE,
                         !.DBSig = FALSE, !.DBSigDone = FALSE, !.DBSigSys = FALSE,
                         !.Saving = TRUE, !.Syncing = FALSE],
          "FollowerExecuteDBState")

\* src 627-640: a transaction other than the coinbase (the first) is a replay
HasDoubleSpend(st, msg) ==
  \E i \in 2 .. Len(msg.Txs) : msg.Txs[i] \in st.FReplay

\* src 644-650: every transaction of the block is sealed in BLOCK_REPLAY
SealBlock(st, msg) ==
  [st EXCEPT !.FReplay = @ \cup {msg.Txs[i] : i \in 1 .. Len(msg.Txs)}]

\* src 635-639: the scan gives up the block of height dbheight
ScanRejects(st, msg, dbheight) ==
  HasDoubleSpend(st, msg) /\ ScannedHeight(dbheight)

\* a FollowerExecuteDBState that applies a block whatever the scan finds
DBStateApplyUnscanned(st, msg) ==
  IF st.panicked THEN st
  ELSE ResetSync(MarkApplied(SealBlock(st, msg), msg))

\* src 627-674; st is the state after AddDBState
DBStateApply(st, msg) ==
  IF st.panicked THEN st
  ELSE IF ScanRejects(st, msg, msg.DBHeight) THEN st
  ELSE ResetSync(MarkApplied(SealBlock(st, msg), msg))

FollowerExecuteDBState(st, msg) ==
  LET dbheight == msg.DBHeight
  IN IF dbheight > 0 /\ dbheight <= GetHighestSavedBlk(st)
        /\ dbheight < st.EntryDBHeightComplete
       THEN st
     ELSE IF ValidNext(st, msg) = 0
       THEN BufferDBState(st, GetHighestSavedBlk(st), msg)
     ELSE IF ValidNext(st, msg) # 1 THEN st
     ELSE IF NewDBStateIsNil(st, dbheight) THEN st
     ELSE DBStateApply(AddDBState(st, FALSE, dbheight, msg.KeyMR), msg)

(***************************************************************************)
(* SendDBSig (src 1287-1336).                                              *)
(***************************************************************************)
\* a signing that does not look at DBSigAlreadySent
SignBlockAgain(st, dbheight, vmIndex) ==
  [LeaderExecuteDBSig(st, NewDBSig(dbheight, vmIndex))
     EXCEPT !.ProcessLists[dbheight].VMs[vmIndex].Signed = TRUE,
            !.ProcessLists[dbheight].DBSigAlreadySent = TRUE]

\* src 1310-1334: the node builds its DirectoryBlockSignature and
\* leader-executes it, once for a process list
SignBlock(st, dbheight, vmIndex) ==
  IF st.ProcessLists[dbheight].DBSigAlreadySent THEN st
  ELSE [LeaderExecuteDBSig(st, NewDBSig(dbheight, vmIndex))
          EXCEPT !.ProcessLists[dbheight].VMs[vmIndex].Signed = TRUE,
                 !.ProcessLists[dbheight].DBSigAlreadySent = TRUE]

RECURSIVE SendDBSig(_, _, _)
SendDBSig(st, dbheight, vmIndex) ==
  IF dbheight <= GetHighestSavedBlk(st) \/ st.EOM THEN st
  ELSE LET pl == st.ProcessLists[dbheight]
           vm == pl.VMs[vmIndex]
           lead == GetVirtualServers(pl, vm.LeaderMinute, st.IdentityChainID)
       IN IF vm.Height > 0 THEN st
          ELSE IF ~lead.Leader \/ lead.LeaderVMIndex # vmIndex THEN st
          ELSE IF vm.Signed THEN st
          ELSE IF ~GetDBState(st, dbheight - 1).Exists
            THEN SendDBSig(st, dbheight - 1, vmIndex)
          ELSE SignBlock(st, dbheight, vmIndex)

(***************************************************************************)
(* The follower handlers (src 467-509, 697-775, 872-922).                  *)
(***************************************************************************)
FollowerExecuteEOM(st, m) ==
  IF m.Local THEN st
  ELSE LET a == [st EXCEPT !.Holding = MapPut(@, m.MsgHash, m)]
           ack == MapGet(a.Acks, m.MsgHash, NoAck)
       IN IF ack.Nil THEN a
          ELSE AddToProcessList(a, ack.DBHeight, ack, m)

\* a FollowerExecuteAck that stores the ack and leaves the held message
\* where it is
FollowerExecuteAckStores(st, ack) ==
  [st EXCEPT !.HighestKnown = Max(@, ack.DBHeight),
             !.Acks = MapPut(@, ack.MessageHash, ack)]

FollowerExecuteAck(st, ack) ==
  LET a == [st EXCEPT !.HighestKnown = Max(@, ack.DBHeight)]
      b == [a EXCEPT !.Acks = MapPut(@, ack.MessageHash, ack)]
      m == MapGet(b.Holding, ack.MessageHash, NoMsg)
  IN IF SlotFilled(a.ProcessLists[ack.DBHeight], ack) THEN a
     ELSE IF m.Nil THEN b
     ELSE FollowerExecute(b, m)

\* src 706-731: the response carries a FullServerFault
MMRFault(st, m) ==
  LET ff == m.MsgResponse
      pl == st.ProcessLists[ff.DBHeight]
  IN IF m.FaultValidate # 1 THEN st
     ELSE IF m.Complete
       THEN IF ReplayValid(st, "INTERNAL", ff.MsgHash, ff.Old)
            THEN [st EXCEPT !.XReview = Append(@, ff)]
            ELSE st
     ELSE IF ff.Height >= pl.SysHeight THEN [st EXCEPT !.XReview = Append(@, ff)]
     ELSE st

\* src 733-773: the response carries an ack and its message
MMRPair(st, m) ==
  LET ack == m.AckResponse
      msg == m.MsgResponse
      okr == ReplayValid(st, "INTERNAL", ack.MsgHash, ack.Old)
      okm == ReplayValid(st, "INTERNAL", msg.MsgHash, msg.Old)
      a == [st EXCEPT !.Acks = MapPut(@, ack.MessageHash, ack)]
      b == IF okr THEN [a EXCEPT !.XReview = Append(@, ack)] ELSE a
      c == IF okm THEN [b EXCEPT !.XReview = Append(@, msg)] ELSE b
  IN IF ack.Nil \/ m.AckValidate = -1 THEN st
     ELSE IF msg.Nil THEN st
     ELSE IF ~okr /\ ~okm THEN AddToProcessList(c, ack.DBHeight, ack, msg)
     ELSE c

FollowerExecuteMMR(st, m) ==
  IF st.IgnoreMissing \/ st.env.busy THEN st
  ELSE IF m.Inner = "FullFault" THEN MMRFault(st, m)
  ELSE MMRPair(st, m)

\* a promotion that takes the reveal out of Holding
PromoteRevealTaken(st, c) ==
  LET re == MapGet(st.Holding, c.EntryHash, NoMsg)
  IN IF re.Nil THEN st
     ELSE [st EXCEPT !.XReview = Append(@, re),
                     !.Holding = MapDelete(@, c.EntryHash)]

\* src 876-881, 888-892, 1052-1057, 1063-1067: the held reveal of the commit
\* goes to review
PromoteReveal(st, c) ==
  LET re == MapGet(st.Holding, c.EntryHash, NoMsg)
  IN IF re.Nil THEN st ELSE [st EXCEPT !.XReview = Append(@, re)]

FollowerExecuteCommitChain(st, m) == PromoteReveal(FollowerExecuteMsg(st, m), m)

FollowerExecuteCommitEntry(st, m) == PromoteReveal(FollowerExecuteMsg(st, m), m)

\* what the history keeps of a reveal that went into a process list
RevealEvent(before, after, m, path) ==
  [ev |-> "reveal", path |-> path, eh |-> m.EntryHash,
   commitBefore |-> ~NextCommit(before, m.EntryHash).Nil,
   commitAfter |-> ~NextCommit(after, m.EntryHash).Nil,
   sealed |-> m.EntryHash \in after.Replay["REVEAL"]]

FollowerExecuteRevealEntry(st, m) ==
  LET a == [st EXCEPT !.Holding = MapPut(@, m.MsgHash, m)]
      ack == MapGet(a.Acks, m.MsgHash, NoAck)
      added == ~SlotFilled(a.ProcessLists[ack.DBHeight], ack)
      b == AddToProcessList(a, ack.DBHeight, ack, [m EXCEPT !.Minute = ack.Minute])
      c == [b EXCEPT !.Commits = MapDelete(@, m.EntryHash)]
      d == ReplaySeal(c, "REVEAL", m.EntryHash, m.Old)
  IN IF ack.Nil THEN a
     ELSE IF added THEN Note(d, RevealEvent(st, d, m, "follower"))
     ELSE d

(***************************************************************************)
(* The leader handlers (src 924-1112).                                     *)
(***************************************************************************)
LeaderExecute(st, m) ==
  IF ~ReplayValid(st, "INTERNAL", m.MsgHash, m.Old)
  THEN [st EXCEPT !.Holding = MapDelete(@, m.MsgHash)]
  ELSE IF NewAckPanics(st, m) THEN Panic(st)
  ELSE AddAcked(st, NewAck(st, m), m)

\* src 966-977: the first EOM of a minute opens the sync on the leader
LeaderEOMOpen(st) ==
  IF st.Syncing THEN st
  ELSE [st EXCEPT !.Syncing = TRUE, !.EOM = TRUE, !.EOMProcessed = 0,
                  !.ProcessLists[st.LLeaderHeight].VMs =
                      [i \in VMs |-> [@[i] EXCEPT !.Synced = FALSE]],
                  !.EOMLimit = Len(st.ProcessLists[st.LLeaderHeight].FedServers),
                  !.EOMMinute = st.CurrentMinute]

\* src 994-1002: the leader places its EOM with the ack it built for it
LeaderEOMPlace(st, eom, ack) ==
  [UpdateState(FollowerExecuteEOM([st EXCEPT !.Acks = MapPut(@, eom.MsgHash, ack)],
                                  [eom EXCEPT !.Local = FALSE]))
     EXCEPT !.Acks = MapDelete(@, ack.MsgHash),
            !.Holding = MapDelete(@, eom.MsgHash)]

\* src 986-1002: the leader stamps its EOM, acknowledges it and places it
LeaderEOMIssue(st, m) ==
  LET eom == [m EXCEPT !.DBHeight = st.LLeaderHeight, !.VMIndex = st.LeaderVMIndex,
                       !.Minute = st.CurrentMinute,
                       !.SysHeight = st.ProcessLists[st.LLeaderHeight].SysHeight,
                       !.MsgHash = EOMHash(st.LLeaderHeight, st.LeaderVMIndex,
                                           st.CurrentMinute)]
      a == [st EXCEPT !.ProcessLists[st.LLeaderHeight].VMs[st.LeaderVMIndex]
                          .EomMinuteIssued = st.CurrentMinute + 1]
  IN IF NewAckPanics(a, eom) THEN Panic(st)
     ELSE LeaderEOMPlace(a, eom, NewAck(a, eom))

LeaderExecuteEOM(st, m) ==
  IF ~m.Local THEN FollowerExecuteEOM(st, m)
  ELSE LET vm == st.ProcessLists[st.LLeaderHeight].VMs[st.LeaderVMIndex]
           a == LeaderEOMOpen(st)
       IN IF st.Syncing /\ vm.Synced THEN st
          ELSE IF vm.EomMinuteIssued >= st.CurrentMinute + 1 THEN a
          ELSE LeaderEOMIssue(a, m)

\* what the history keeps of a commit the leader acknowledged
AckedEvent(st, m) ==
  [ev |-> "acked", eh |-> m.EntryHash, credits |-> m.Credits, type |-> m.Type,
   sealed |-> m.EntryHash \in st.Replay["REVEAL"]]

\* a is the state LeaderExecute left
LeaderExecuteCommitNext(st, a, m) ==
  PromoteReveal(IF ReplayValid(st, "INTERNAL", m.MsgHash, m.Old) /\ ~a.panicked
                THEN Note(a, AckedEvent(st, m))
                ELSE a, m)

LeaderExecuteCommit(st, m) == LeaderExecuteCommitNext(st, LeaderExecute(st, m), m)

LeaderExecuteCommitChain(st, m) ==
  IF ~IsHighestCommit(st, m.EntryHash, m) THEN st
  ELSE LeaderExecuteCommit(st, m)

LeaderExecuteCommitEntry(st, m) == LeaderExecuteCommit(st, m)

\* src 1109-1111; c is the state with the reveal in the list, sealed, and its
\* commit gone
LeaderRevealDone(st, c, m) == Note(c, RevealEvent(st, c, m, "leader"))

\* src 1098-1111; b is the state after pl.AddToProcessList(ack, re)
LeaderRevealNext(st, b, m) ==
  IF ~MapGet(b.Acks, m.MsgHash, NoAck).Nil
  THEN FollowerExecuteRevealEntry(
         PutCommit(b, m.EntryHash, NextCommit(st, m.EntryHash)), m)
  ELSE LeaderRevealDone(st, [ReplaySeal(b, "REVEAL", m.EntryHash, m.Old)
                               EXCEPT !.Commits = MapDelete(@, m.EntryHash)], m)

\* src 1089-1096
LeaderRevealAck(st, ack, m) ==
  LeaderRevealNext(st, AddAcked([st EXCEPT !.Acks = MapPut(@, m.MsgHash, ack)], ack, m),
                   m)

LeaderExecuteRevealEntry(st, m) ==
  IF Validate(st, m) = 0 THEN FollowerExecuteRevealEntry(st, m)
  ELSE IF Validate(st, m) = -1 THEN st
  ELSE IF ~ReplayValid(st, "REVEAL", m.EntryHash, m.Old) THEN st
  ELSE IF NewAckPanics(st, m) THEN Panic(st)
  ELSE LeaderRevealAck(st, NewAck(st, m), m)

(***************************************************************************)
(* Each message type's FollowerExecute and LeaderExecute, and executeMsg   *)
(* (src 38-94).                                                            *)
(***************************************************************************)
FollowerExecute(st, m) ==
  CASE m.Type = "EOM" -> FollowerExecuteEOM(st, m)
    [] m.Type = "Ack" -> FollowerExecuteAck(st, m)
    [] m.Type = "DBState" -> FollowerExecuteDBState(st, m)
    [] m.Type = "MMR" -> FollowerExecuteMMR(st, m)
    [] m.Type = "CommitChain" -> FollowerExecuteCommitChain(st, m)
    [] m.Type = "CommitEntry" -> FollowerExecuteCommitEntry(st, m)
    [] m.Type = "Reveal" -> FollowerExecuteRevealEntry(st, m)
    [] OTHER -> FollowerExecuteMsg(st, m)

MsgLeaderExecute(st, m) ==
  CASE m.Type = "EOM" -> LeaderExecuteEOM(st, m)
    [] m.Type = "DBSig" -> LeaderExecuteDBSig(st, m)
    [] m.Type = "CommitChain" -> LeaderExecuteCommitChain(st, m)
    [] m.Type = "CommitEntry" -> LeaderExecuteCommitEntry(st, m)
    [] m.Type = "Reveal" -> LeaderExecuteRevealEntry(st, m)
    [] OTHER -> FollowerExecute(st, m)

\* the vm Process hands to executeMsg: nil, or the VM the node led when
\* the pass began (src 140-146)
NilVM == [Nil |-> TRUE, PL |-> 0, Index |-> 0]

\* a leader test that does not look at Saving
LeaderReadyWhileSaving(st, vmref, m) ==
  LET vm == st.ProcessLists[vmref.PL].VMs[vmref.Index]
  IN /\ st.RunLeader /\ st.Leader
     /\ ~vmref.Nil /\ vm.Height = Len(vm.List)
     /\ (~st.Syncing \/ ~vm.Synced)
     /\ (m.Local \/ m.VMIndex = st.LeaderVMIndex)
     /\ st.LeaderPL + 1 >= st.HighestKnown

\* src 57-63
LeaderReady(st, vmref, m) ==
  LET vm == st.ProcessLists[vmref.PL].VMs[vmref.Index]
  IN /\ st.RunLeader /\ st.Leader /\ ~st.Saving
     /\ ~vmref.Nil /\ vm.Height = Len(vm.List)
     /\ (~st.Syncing \/ ~vm.Synced)
     /\ (m.Local \/ m.VMIndex = st.LeaderVMIndex)
     /\ st.LeaderPL + 1 >= st.HighestKnown

\* what the history keeps of a message executeMsg found invalid: before
\* and after are the states around src 83-86
InvalidEvent(before, after, m) ==
  Note(after,
       [ev |-> "invalid", obj |-> m.Obj, hash |-> m.MsgHash,
        pushed |-> Len(after.networkInvalidMsgQueue)
                     > Len(before.networkInvalidMsgQueue),
        held |-> m.MsgHash \in DOMAIN after.Holding
                   /\ after.Holding[m.MsgHash].Obj = m.Obj])

\* an executeMsg that sends every invalid message to the network, sent
\* before or not
SendInvalidAgain(st, m) ==
  InvalidEvent(st, [st EXCEPT !.SentInvalid = @ \cup {m.Obj},
                              !.networkInvalidMsgQueue = Append(@, m)], m)

\* src 83-86: msg.SentInvalid() is the flag of the message object m.Obj
SendInvalid(st, m) ==
  IF m.Obj \in st.SentInvalid THEN InvalidEvent(st, st, m)
  ELSE InvalidEvent(st, [st EXCEPT !.SentInvalid = @ \cup {m.Obj},
                                   !.networkInvalidMsgQueue = Append(@, m)], m)

\* src 64-70: the leader's side of executeMsg
LeaderPath(st, vmref, m) ==
  IF Len(st.ProcessLists[vmref.PL].VMs[vmref.Index].List) = 0
  THEN [SendDBSig(st, st.LLeaderHeight, st.LeaderVMIndex)
          EXCEPT !.XReview = Append(@, m)]
  ELSE MsgLeaderExecute(st, m)

executeMsg(st, vmref, m) ==
  IF ~ReplayValid(st, "INTERNAL", m.MsgHash, m.Old) THEN Ret(st, FALSE)
  ELSE IF st.IgnoreMissing /\ m.Old THEN Ret(st, FALSE)
  ELSE IF Validate(st, m) = 1
    THEN IF LeaderReady(st, vmref, m)
         THEN Ret(LeaderPath(st, vmref, m), TRUE)
         ELSE Ret(FollowerExecute(st, m), TRUE)
  ELSE IF Validate(st, m) = 0
    THEN Ret(Note([st EXCEPT !.Holding = MapPut(@, m.MsgHash, m)],
                  [ev |-> "parked", obj |-> m.Obj]), FALSE)
  ELSE Ret(SendInvalid([st EXCEPT !.Holding = MapPut(@, m.MsgHash, m)], m), FALSE)

(***************************************************************************)
(* ProcessFullServerFault (src 1739-1963).  ff.EnoughSigs and ff.Pledged   *)
(* say what HasEnoughSigs and pledgedByAudit find in the fault.            *)
(***************************************************************************)
\* a swap that leaves the promoted server in the audit list
SwapServersKeepsAudit(st, ff, listIdx) ==
  LET pl == st.ProcessLists[ff.DBHeight]
      fedServ == pl.FedServers[listIdx]
      pl1 == [pl EXCEPT !.FedServers[listIdx] = ff.AuditServerID,
                        !.Online[ff.AuditServerID] = TRUE,
                        !.Online[fedServ] = FALSE,
                        !.AuditServers = IF SeqIndex(@, fedServ, 1) = 0
                                         THEN Append(@, fedServ) ELSE @]
      a == [st EXCEPT !.ProcessLists[ff.DBHeight] = markNoFault(pl1, ff.VMIndex)]
  IN SetLeader([a EXCEPT !.LeaderPL = a.LLeaderHeight], a.CurrentMinute)

\* src 1842-1887: the audit server takes the place of the faulted server
SwapServers(st, ff, listIdx) ==
  LET pl == st.ProcessLists[ff.DBHeight]
      fedServ == pl.FedServers[listIdx]
      pl1 == [pl EXCEPT !.FedServers[listIdx] = ff.AuditServerID,
                        !.Online[ff.AuditServerID] = TRUE,
                        !.Online[fedServ] = FALSE,
                        !.AuditServers =
                            SeqRemove(IF SeqIndex(@, fedServ, 1) = 0
                                      THEN Append(@, fedServ) ELSE @,
                                      ff.AuditServerID)]
      pl2 == markNoFault(pl1, ff.VMIndex)
      nextIndex == (ff.VMIndex + 1) % Len(pl.FedServers)
      pl3 == IF pl2.VMs[nextIndex].FaultFlag > 0 THEN markNoFault(pl2, nextIndex)
             ELSE pl2
      a == [st EXCEPT !.ProcessLists[ff.DBHeight] = pl3]
      b == [a EXCEPT !.LeaderPL = a.LLeaderHeight]
  IN SetLeader(b, b.CurrentMinute)

\* the state, the return value, and the fault as the handler leaves it
FaultRet(st, ret, ff) == [s |-> st, ret |-> ret, ff |-> ff]

\* a SetAlreadyProcessed that marks nothing
SetAlreadyProcessedNot(ff) == ff

\* fullFault.SetAlreadyProcessed()
SetAlreadyProcessed(ff) == [ff EXCEPT !.AlreadyProcessed = TRUE]

\* a rewind that takes the VM next to the faulted one back
FaultRewindOther(st, ff) ==
  [st EXCEPT !.ProcessLists[ff.DBHeight].VMs[(ff.VMIndex + 1) % NumFed].Height =
               ff.Height]

\* src 1829-1834: the VM is ahead of the fault, and goes back to it
FaultRewind(st, ff) ==
  [st EXCEPT !.ProcessLists[ff.DBHeight].VMs[ff.VMIndex].Height = ff.Height]

\* a handler that takes every ClearFault as agreed
ProcessFullServerFaultCleared(st, ff) ==
  LET pl == st.ProcessLists[ff.DBHeight]
      vm == pl.VMs[ff.VMIndex]
      listIdx == SeqIndex(pl.FedServers, ff.ServerID, 1)
  IN IF ff.AlreadyProcessed THEN FaultRet(st, FALSE, ff)
     ELSE IF pl.SysHeight < ff.SysHeight THEN FaultRet(st, FALSE, ff)
     ELSE IF ff.Height > vm.Height THEN FaultRet(st, FALSE, ff)
     ELSE IF ff.SysHeight # pl.SysHeight THEN FaultRet(st, FALSE, ff)
     ELSE IF ff.ClearFault
       THEN FaultRet(st, TRUE, SetAlreadyProcessed(ff))
     ELSE IF SeqIndex(pl.AuditServers, ff.AuditServerID, 1) = 0
       THEN FaultRet(st, FALSE, ff)
     ELSE IF ~(ff.EnoughSigs /\ ff.Pledged) THEN FaultRet(st, FALSE, ff)
     ELSE IF vm.Height > ff.Height THEN FaultRet(FaultRewind(st, ff), FALSE, ff)
     ELSE IF listIdx = 0 THEN FaultRet(st, FALSE, ff)
     ELSE FaultRet(SwapServers(st, ff, listIdx), TRUE, SetAlreadyProcessed(ff))

ProcessFullServerFault(st, ff) ==
  LET pl == st.ProcessLists[ff.DBHeight]
      vm == pl.VMs[ff.VMIndex]
      listIdx == SeqIndex(pl.FedServers, ff.ServerID, 1)
  IN IF ff.AlreadyProcessed THEN FaultRet(st, FALSE, ff)
     ELSE IF pl.SysHeight < ff.SysHeight THEN FaultRet(st, FALSE, ff)
     ELSE IF ff.Height > vm.Height THEN FaultRet(st, FALSE, ff)
     ELSE IF ff.SysHeight # pl.SysHeight THEN FaultRet(st, FALSE, ff)
     ELSE IF ff.ClearFault /\ vm.WhenFaulted = 0
       THEN FaultRet(st, TRUE, SetAlreadyProcessed(ff))
     ELSE IF SeqIndex(pl.AuditServers, ff.AuditServerID, 1) = 0
       THEN FaultRet(st, FALSE, ff)
     ELSE IF ~(ff.EnoughSigs /\ ff.Pledged) THEN FaultRet(st, FALSE, ff)
     ELSE IF vm.Height > ff.Height THEN FaultRet(FaultRewind(st, ff), FALSE, ff)
     ELSE IF listIdx = 0 THEN FaultRet(st, FALSE, ff)
     ELSE FaultRet(SwapServers(st, ff, listIdx), TRUE, SetAlreadyProcessed(ff))

\* the process list hands the fault at the head of its system list to
\* ProcessFullServerFault, and moves on when it returns true
ProcessSystem(st, ff) ==
  LET r == ProcessFullServerFault(st, ff)
  IN IF r.ret /\ r.s.ProcessLists[ff.DBHeight].SysHeight < MaxSys
     THEN [r.s EXCEPT !.ProcessLists[ff.DBHeight].SysHeight = @ + 1]
     ELSE r.s

(***************************************************************************)
(* Process (src 96-244): one pass of the main loop over the acks and the   *)
(* messages that wait in the queues.  env.elapsed: the start delay is over.*)
(***************************************************************************)
\* src 118-123, 125-130
RefreshLeader(st) ==
  LET a == [st EXCEPT !.LeaderPL = st.LLeaderHeight]
  IN SetLeader(a, IF a.CurrentMinute > 9 THEN 9 ELSE a.CurrentMinute)

\* src 107-135
BootWindow(st) ==
  IF ~st.RunLeader
  THEN RefreshLeader([st EXCEPT !.RunLeader = st.env.elapsed /\ st.DBFinished])
  ELSE IF st.IgnoreMissing
  THEN [RefreshLeader(st) EXCEPT !.IgnoreMissing = ~st.env.elapsed]
  ELSE st

\* src 140-146
LeaderVM(st) ==
  IF st.Leader THEN [Nil |-> FALSE, PL |-> st.LeaderPL, Index |-> st.LeaderVMIndex]
  ELSE NilVM

\* src 140-146; st is the state after the boot window
ProcessHead(st) ==
  IF st.Leader /\ st.ProcessLists[st.LeaderPL].VMs[st.LeaderVMIndex].Height = 0
  THEN SendDBSig(st, st.LeaderPL, st.LeaderVMIndex)
  ELSE st

\* src 167-186
RECURSIVE AckLoop(_, _, _)
AckLoop(st, vmref, acks) ==
  IF acks = <<>> \/ st.panicked THEN st
  ELSE LET a == Head(acks)
           run == /\ a.DBHeight >= st.LLeaderHeight /\ Validate(st, a) = 1
                  /\ (st.IgnoreMissing => ~a.Old)
       IN AckLoop(IF run THEN executeMsg(st, vmref, a).s ELSE st, vmref, Tail(acks))

\* msg.IsPeer2Peer(): missing-message responses and DBStates go from one
\* peer to another, every other message is broadcast
IsPeer2Peer(m) == m.Type \in {"MMR", "DBState"}

\* msg.SendOut(s, msg) in Process: by is the loop that sends, executed what
\* executeMsg returned for the message in that loop
SendOut(st, m, by, executed) ==
  Note(st, [ev |-> "sendout", type |-> m.Type, by |-> by,
            p2p |-> IsPeer2Peer(m), executed |-> executed])

\* src 199-201: r is what executeMsg returned for m
QueueSend(r, m) ==
  IF r.ret /\ ~IsPeer2Peer(m) THEN SendOut(r.s, m, "queue", r.ret) ELSE r.s

\* src 194-205
RECURSIVE QueueLoop(_, _, _)
QueueLoop(st, vmref, msgs) ==
  IF msgs = <<>> \/ st.panicked THEN st
  ELSE QueueLoop(QueueSend(executeMsg(st, vmref, Head(msgs)), Head(msgs)),
                 vmref, Tail(msgs))

\* the pass over XReview of src 213-223
RECURSIVE MsgLoop(_, _, _)
MsgLoop(st, vmref, msgs) ==
  IF msgs = <<>> \/ st.panicked THEN st
  ELSE MsgLoop(executeMsg(st, vmref, Head(msgs)).s, vmref, Tail(msgs))

\* src 233-236: r is what executeMsg returned for m
PumpSend(r, m) ==
  IF ~IsPeer2Peer(m) THEN SendOut(r.s, m, "pump", r.ret) ELSE r.s

\* src 231-238
RECURSIVE Pump(_, _, _)
Pump(st, vmref, process) ==
  IF process = <<>> \/ st.panicked THEN st
  ELSE Pump(UpdateState(PumpSend(executeMsg(st, vmref, Head(process)),
                                 Head(process))),
            vmref, Tail(process))

\* src 213-238; st is the state after the loops over the two queues
ProcessReview(st, vmref) ==
  Pump([MsgLoop(st, vmref, st.XReview) EXCEPT !.XReview = <<>>, !.process = <<>>],
       vmref, st.process \o st.XReview)

\* src 163-205; vmref is the VM captured before the DBSig was sent
ProcessQueues(st, vmref, acks, msgs) ==
  ProcessReview(QueueLoop(AckLoop(ReviewHolding(st), vmref, acks), vmref, msgs), vmref)

\* src 140-238; st is the state after the boot window
\* src 140-161: the DBSig of the leader, then the DBState that waits
ProcessDrain(st) ==
  LET a == ProcessHead(st)
  IN DrainDBStates(a, GetHighestSavedBlk(a))

ProcessBody(st, acks, msgs) ==
  ProcessQueues(ProcessDrain(st), LeaderVM(st), acks, msgs)

Process(st, acks, msgs) == ProcessBody(BootWindow(st), acks, msgs)

\* one turn of the validator loop: Process, then UpdateState
Turn(st, acks, msgs) == UpdateState(Process(st, acks, msgs))

(***************************************************************************)
(* The state after construction, and after the genesis block is loaded     *)
(* from the database.                                                      *)
(***************************************************************************)
\* what a step cannot read from the State: see ReviewHolding, BlockClose,
\* FollowerExecuteMMR and Process
NoEnv ==
  [keyMR |-> "canon", review |-> FALSE, desc |-> FALSE, Expire |-> FALSE,
   Resend |-> FALSE, busy |-> FALSE, elapsed |-> FALSE]

NewState(id) ==
  [Network |-> "MAIN",
   LLeaderHeight |-> 0, CurrentMinute |-> 0, LeaderPL |-> 0, Leader |-> FALSE,
   LeaderVMIndex |-> 0, RunLeader |-> FALSE, DBFinished |-> FALSE,
   IgnoreMissing |-> TRUE, Saving |-> FALSE, Syncing |-> FALSE,
   EOM |-> FALSE, EOMDone |-> FALSE, EOMSys |-> FALSE, EOMProcessed |-> 0,
   EOMLimit |-> 0, EOMMinute |-> 0,
   DBSig |-> FALSE, DBSigDone |-> FALSE, DBSigSys |-> FALSE, DBSigProcessed |-> 0,
   DBSigLimit |-> 0, KeepMismatch |-> FALSE, HighestKnown |-> 0,
   IdentityChainID |-> id, EntryDBHeightComplete |-> 0,
   ProcessLists |-> [h \in PLHeights |-> NewProcessList],
   DBStates |-> [h \in Heights |-> NilDBState],
   Holding |-> EmptyMap, Acks |-> EmptyMap, Commits |-> EmptyMap,
   XReview |-> <<>>,
   DBStatesReceived |-> <<>>, DBStatesReceivedBase |-> 0, process |-> <<>>,
   Replay |-> [INTERNAL |-> {}, REVEAL |-> {}],
   FReplay |-> {}, FactoidBalancesT |-> {}, ECBalancesT |-> {},
   SentInvalid |-> {}, networkInvalidMsgQueue |-> <<>>,
   panicked |-> FALSE, log |-> <<>>, env |-> NoEnv]

\* the DBStateMsg of the block of height h
DBStateMsg(h, inDB) ==
  [Nil |-> FALSE, Type |-> "DBState", MsgHash |-> 200 + h, VMIndex |-> 0,
   DBHeight |-> h, Minute |-> 0, Local |-> inDB, EntryHash |-> 0, Credits |-> 0,
   SysHeight |-> 0, Old |-> FALSE, Matches |-> FALSE, BodyOK |-> TRUE,
   SigOK |-> TRUE, Height |-> 0, Paid |-> TRUE, HasChain |-> TRUE, V |-> 1,
   Obj |-> 0, IsInDB |-> inDB, ChainOK |-> TRUE, KeyMR |-> "canon", Txs |-> <<>>]

\* the database holds the genesis block: it is loaded, and the load is over
Booted(id) ==
  [FollowerExecuteDBState(NewState(id), DBStateMsg(0, TRUE))
     EXCEPT !.DBFinished = TRUE]

\* the identities a node runs with: a federated server, an audit server
Identities == {1, NumFed + 1}

(***************************************************************************)
(* The history of a run: the events of the last step, each with the        *)
(* minutes that completed at its height up to and including it.            *)
(***************************************************************************)
RECURSIVE Stamp(_, _)
Stamp(mins, log) ==
  IF log = <<>> THEN [mins |-> mins, events |-> <<>>]
  ELSE LET e == Head(log)
           m == IF e.ev = "minute"
                THEN [mins EXCEPT ![e.height] = Append(@, e.minute)]
                ELSE mins
           r == Stamp(m, Tail(log))
       IN [mins |-> r.mins,
           events |-> <<[e |-> e, done |-> IF e.ev \in {"minute", "eomout"}
                                           THEN m[e.height]
                                           ELSE <<>>]>> \o r.events]

\* odd: the messages the network has sent out of turn; dbstates: the
\* DBStates it has sent
NoHistory ==
  [mins |-> [h \in PLHeights |-> <<>>], events |-> <<>>, odd |-> 0, dbstates |-> 0,
   faults |-> 0]

\* the history of the minute machine: what the step did to the minutes,
\* the blocks and the faults, not what it sent out
Minuted(log) == SelectSeq(log, LAMBDA e : e.ev # "sendout")

\* the step ends in state t, unless the program crashed
Commit(t, odd, dbstates) ==
  /\ ~t.panicked
  /\ s' = [t EXCEPT !.log = <<>>, !.env = NoEnv]
  /\ g' = [mins |-> Stamp(g.mins, Minuted(t.log)).mins,
           events |-> Stamp(g.mins, Minuted(t.log)).events,
           odd |-> g.odd + odd, dbstates |-> g.dbstates + dbstates,
           faults |-> g.faults]

(***************************************************************************)
(* What the network and the timer send a node that is at height h.         *)
(***************************************************************************)
\* the EOM the timer makes: local, unsigned
LocalEOM ==
  [NoMsg EXCEPT !.Nil = FALSE, !.Type = "EOM", !.MsgHash = 1, !.Local = TRUE]

NetEOM(h, vm, minute) ==
  [NoMsg EXCEPT !.Nil = FALSE, !.Type = "EOM", !.MsgHash = EOMHash(h, vm, minute),
                !.DBHeight = h, !.VMIndex = vm, !.Minute = minute]

NetDBSig(h, vm, ok) ==
  [NewDBSig(h, vm) EXCEPT !.Local = FALSE, !.BodyOK = ok]

\* the ack the leader of a VM made (with NewAck) for message m as the next
\* of the list it leads
NetAck(st, h, vm, m) ==
  LET list == st.ProcessLists[h].VMs[vm].List
      ht == Len(list)
  IN [Nil |-> FALSE, Type |-> "Ack",
      MsgHash |-> AckHash(h, vm, ht, m.MsgHash),
      DBHeight |-> h, VMIndex |-> vm, Height |-> ht,
      Minute |-> st.ProcessLists[h].VMs[vm].LeaderMinute,
      MessageHash |-> m.MsgHash,
      SerialHash |-> IF ht = 0 \/ IsNilSlot(list[ht]) THEN Leaf(m.MsgHash)
                     ELSE NextSerialHash(list[ht].Ack, m.MsgHash),
      Old |-> FALSE, Local |-> FALSE, V |-> 1, Obj |-> 0]

\* the minutes an EOM of the network may carry
MinutesSent(st) == {st.CurrentMinute, BlockMinutes - 1} \cap EOMMinutes

\* an EOM and a DirectoryBlockSignature of the block below, still on their
\* way when the node has moved on
Stale(st) ==
  {NetEOM(st.LLeaderHeight - 1, 0, 0), NetDBSig(st.LLeaderHeight - 1, 0, TRUE)}

SyncMsgs(st) ==
  {NetEOM(st.LLeaderHeight, vm, minute) : vm \in VMs, minute \in MinutesSent(st)}
    \cup {NetDBSig(st.LLeaderHeight, vm, ok) : vm \in VMs, ok \in BOOLEAN}
    \cup Stale(st)

\* the list of the VM has room for one more message of the network
Room(st, vm) ==
  LET v == st.ProcessLists[st.LLeaderHeight].VMs[vm]
  IN Len(v.List) - v.Height < MaxBacklog

\* nothing waits for its other half, or the other half of m waits
Pending(st) == Cardinality(DOMAIN st.Holding) + Cardinality(DOMAIN st.Acks)

\* the network sends a node the messages of the VMs it does not lead
MayArrive(st, vm) ==
  /\ Room(st, vm) /\ Pending(st) < MaxPending
  /\ ~(st.Leader /\ vm = st.LeaderVMIndex)

\* the node has nothing of the network for the block it is at
Quiet(st) ==
  /\ Pending(st) = 0
  /\ \A vm \in VMs :
       \/ st.ProcessLists[st.LLeaderHeight].VMs[vm].List = <<>>
       \/ (st.Leader /\ vm = st.LeaderVMIndex)

\* the message is out of turn: an EOM of another minute, a signature of
\* another block body
Odd(st, m) ==
  IF \/ (m.Type = "EOM" /\ m.Minute # st.CurrentMinute)
     \/ (m.Type = "DBSig" /\ ~m.BodyOK)
     \/ m.DBHeight # st.LLeaderHeight
  THEN 1 ELSE 0

TickEnvs == {[NoEnv EXCEPT !.review = r, !.elapsed = e] : r, e \in BOOLEAN}

RunEnv == [NoEnv EXCEPT !.elapsed = TRUE]

(***************************************************************************)
(* The minute machine: a node takes the EOMs, DirectoryBlockSignatures,    *)
(* acks and DBStates of its height.                                        *)
(***************************************************************************)
Init ==
  /\ s \in {Booted(id) : id \in Identities}
  /\ g = NoHistory

\* a turn of the validator loop with empty queues
Tick ==
  \E env \in TickEnvs : Commit(Turn([s EXCEPT !.env = env], <<>>, <<>>), 0, 0)

Timer ==
  Commit(Turn([s EXCEPT !.env = RunEnv], <<>>, <<LocalEOM>>), 0, 0)

RecvSync ==
  \E m \in SyncMsgs(s) :
    /\ IF Odd(s, m) = 1 THEN MayArrive(s, m.VMIndex)
       ELSE MayArrive(s, m.VMIndex) \/ m.MsgHash \in DOMAIN s.Acks
    /\ g.odd + Odd(s, m) <= MaxOdd
    /\ (Odd(s, m) = 1 => g.faults = 0 /\ g.dbstates = 0)
    /\ Commit(Turn([s EXCEPT !.env = RunEnv], <<>>, <<m>>), Odd(s, m), 0)

\* the ack of a message out of turn comes after the message
RecvAck ==
  \E m \in SyncMsgs(s) :
    /\ IF Odd(s, m) = 1 THEN m.MsgHash \in DOMAIN s.Holding
       ELSE MayArrive(s, m.VMIndex) \/ m.MsgHash \in DOMAIN s.Holding
    /\ Commit(Turn([s EXCEPT !.env = RunEnv],
                   <<NetAck(s, m.DBHeight, m.VMIndex, m)>>, <<>>), 0, 0)

\* a node that is behind gets the DBStates of the blocks from..to in one
\* burst, before it takes part in the block it is at
\* the factoid transactions of a block, by their signature hashes, the
\* coinbase first
TxLists == {<<>>, <<70, 71>>}

\* the DBStateMsg of the block of height h with the transactions txs
BlockMsg(h, txs) == [DBStateMsg(h, FALSE) EXCEPT !.Txs = txs]

RecvDBState ==
  \E from \in Heights \ {0}, to \in Heights \ {0}, txs \in TxLists :
    /\ from <= to
    /\ g.dbstates < MaxDBStates /\ g.faults = 0 /\ g.odd = 0
    /\ Quiet(s)
    /\ Commit(Turn([s EXCEPT !.env = RunEnv], <<>>,
                   [i \in 1 .. (to - from) + 1 |-> BlockMsg(from + i - 1, txs)]),
              0, 1)

\* the full faults the system list of the block may hold
Faults(st) ==
  LET pl == st.ProcessLists[st.LLeaderHeight]
  IN {[DBHeight |-> st.LLeaderHeight, VMIndex |-> vm,
       Height |-> Max(0, pl.VMs[vm].Height - back),
       SysHeight |-> sys, ClearFault |-> clear, ServerID |-> fed,
       AuditServerID |-> aud, EnoughSigs |-> sigs, Pledged |-> pledged,
       AlreadyProcessed |-> done] :
        vm \in VMs, back \in {-1, 0, 1}, sys \in SysHeights, clear \in BOOLEAN,
        fed \in Servers, aud \in Servers, sigs \in BOOLEAN, pledged \in BOOLEAN,
        done \in BOOLEAN}

\* the process list works on the head of its system list
Fault ==
  /\ g.faults < MaxFaults /\ g.odd = 0 /\ g.dbstates = 0
  /\ s.CurrentMinute < MaxFaultMinute
  /\ \E ff \in Faults(s) :
       /\ ProcessSystem(s, ff) # s
       /\ s' = ProcessSystem(s, ff)
       /\ g' = [g EXCEPT !.events = <<>>, !.faults = @ + 1]

Next == Tick \/ Timer \/ RecvSync \/ RecvAck \/ RecvDBState \/ Fault

Spec == Init /\ [][Next]_vars

(***************************************************************************)
(* Properties of the minute machine.                                       *)
(***************************************************************************)
\* the minute completions of the last step
Completions == {i \in 1 .. Len(g.events) : g.events[i].e.ev = "minute"}

\* C1: ProcessEOM marks a minute complete only in a state where every
\* federated VM of the process list is synced and EOMProcessed equals the
\* number of federated servers of that list.
C1_MinuteCompletesWhenAllSynced ==
  \A i \in Completions :
    g.events[i].e.synced /\ g.events[i].e.processed = g.events[i].e.feds

\* a minute has just completed with every VM synced
C1_Witness ==
  \E i \in Completions :
    /\ g.events[i].e.synced /\ g.events[i].e.processed = NumFed
    /\ s.EOMDone

\* minutes 0..9, in this order
AllMinutes == [k \in 1 .. BlockMinutes |-> k - 1]

\* C2: a block closes only after minutes 0..9 of its height each completed,
\* in increasing order, whatever Minute values the received EOMs carry.
C2_BlockClosesAfterTenMinutes ==
  \A i \in Completions :
    g.events[i].e.closed => g.events[i].done = AllMinutes

\* C3: LLeaderHeight never decreases, whatever step the node takes.
C3_LeaderHeightNeverDecreases ==
  [][s'.LLeaderHeight >= s.LLeaderHeight]_vars

\* the node has moved up from the block it started at
C3_Witness == s.LLeaderHeight > 1 /\ s.DBStates[1].Exists

Count(q, x) == Cardinality({k \in 1 .. Len(q) : q[k] = x})

\* the completions of the last step whose EOMs, one of each federated VM,
\* all carry minute m
CompletionsOf(m) == {i \in Completions : g.events[i].e.eoms = {m}}

Clears == {i \in 1 .. Len(g.events) : g.events[i].e.ev = "eomclear"}

\* the tail of ProcessEOM cleared the flag when the minute was done and the
\* last EOM of the sync left it
ClearedByTail(e) ==
  e.by = "ProcessEOM" /\ e.done /\ e.sys /\ e.left <= 1 /\ e.processed = 0

Range(q) == {q[k] : k \in 1 .. Len(q)}

\* the step hands a full fault of the system list to ProcessFullServerFault
FaultStep == g'.faults > g.faults

\* the faults that account for the step
FaultsOfStep == {ff \in Faults(s) : s' = ProcessSystem(s, ff)}

\* the step promoted an audit server in the process list of height h
Promoted(h) == s'.ProcessLists[h].FedServers # s.ProcessLists[h].FedServers

\* C15: ProcessFullServerFault replaces a federated server by the nominated
\* audit server only if the fault is not already processed, has enough
\* signatures and the pledge of the audit server, and its SystemHeight and
\* Height are those of the system list and of the VM; then the promoted
\* server is at the index of the faulted one in FedServers and online, the
\* faulted one is in AuditServers and offline, the promoted one is no longer
\* in AuditServers, and the fault is marked processed: a second call on it
\* returns false and changes nothing.
C15_FaultSwapsOnce ==
  [][(FaultStep /\ Promoted(s.LLeaderHeight)) =>
       \A ff \in FaultsOfStep :
         Promoted(ff.DBHeight) =>
           LET pl == s.ProcessLists[ff.DBHeight]
               after == s'.ProcessLists[ff.DBHeight]
               marked == ProcessFullServerFault(s, ff).ff
           IN /\ ~ff.AlreadyProcessed /\ ff.EnoughSigs /\ ff.Pledged
              /\ ff.SysHeight = pl.SysHeight
              /\ ff.Height = pl.VMs[ff.VMIndex].Height
              /\ \E k \in 1 .. Len(pl.FedServers) :
                   /\ pl.FedServers[k] = ff.ServerID
                   /\ after.FedServers = [pl.FedServers EXCEPT ![k] = ff.AuditServerID]
              /\ after.Online[ff.AuditServerID]
              /\ ff.ServerID \in Range(after.AuditServers)
              /\ ~after.Online[ff.ServerID]
              /\ ff.AuditServerID \notin Range(after.AuditServers)
              /\ marked.AlreadyProcessed
              /\ ~ProcessFullServerFault(s', marked).ret
              /\ ProcessFullServerFault(s', marked).s = s']_vars

\* an audit server has taken the place of a federated server of the block
C15_Witness ==
  /\ g.faults = 1
  /\ \E k \in 1 .. NumFed :
       /\ s.ProcessLists[s.LLeaderHeight].FedServers[k] = NumFed + 1
       /\ ~s.ProcessLists[s.LLeaderHeight].Online[k]
       /\ k \in Range(s.ProcessLists[s.LLeaderHeight].AuditServers)

\* C16: in every process list no server identity is in both FedServers and
\* AuditServers, and a fault promotion leaves the number of federated
\* servers as it was.
C16_FedAndAuditDisjoint ==
  \A h \in PLHeights :
    /\ Range(s.ProcessLists[h].FedServers) \cap Range(s.ProcessLists[h].AuditServers) = {}
    /\ Len(s.ProcessLists[h].FedServers) = NumFed
    /\ Cardinality(Range(s.ProcessLists[h].FedServers)) = NumFed

\* after a promotion: the audit list holds the faulted server alone
C16_Witness ==
  /\ g.faults = 1
  /\ Range(s.ProcessLists[s.LLeaderHeight].AuditServers) \subseteq 1 .. NumFed
  /\ Len(s.ProcessLists[s.LLeaderHeight].AuditServers) = NumAudit

\* C17 as stated: for every VM of the process list of the open block,
\* Height never decreases.
C17_VMHeightNeverDecreases ==
  [][\A i \in VMs :
       s'.LLeaderHeight = s.LLeaderHeight =>
         s'.ProcessLists[s.LLeaderHeight].VMs[i].Height
           >= s.ProcessLists[s.LLeaderHeight].VMs[i].Height]_vars

\* C17: for every VM of a process list, Height decreases only when
\* ProcessFullServerFault gets a fault, not yet processed, with enough
\* signatures and the pledge of the audit server, for that VM and with a
\* Height below the VM's: the VM's Height then becomes the fault's.
C17_VMHeightDecreasesOnlyByFault ==
  [][\A h \in PLHeights, i \in VMs :
       s'.ProcessLists[h].VMs[i].Height < s.ProcessLists[h].VMs[i].Height =>
         /\ FaultStep
         /\ \A ff \in FaultsOfStep :
              /\ ff.DBHeight = h /\ ff.VMIndex = i
              /\ ~ff.AlreadyProcessed /\ ff.EnoughSigs /\ ff.Pledged
              /\ ff.Height < s.ProcessLists[h].VMs[i].Height
              /\ s'.ProcessLists[h].VMs[i].Height = ff.Height]_vars

\* a fault has taken a VM back below the end of its list
C17_Witness ==
  /\ g.faults = 1
  /\ s.ProcessLists[s.LLeaderHeight].SysHeight = 0
  /\ Range(s.ProcessLists[s.LLeaderHeight].FedServers) = 1 .. NumFed
  /\ \E i \in VMs :
       /\ s.ProcessLists[s.LLeaderHeight].VMs[i].Height = 0
       /\ s.ProcessLists[s.LLeaderHeight].VMs[i].List # <<>>
       /\ s.ProcessLists[s.LLeaderHeight].VMs[i].Signed

\* the block closes of the last step
Closes == {i \in Completions : g.events[i].e.closed}

ConsensusView(st) ==
  [LLeaderHeight |-> st.LLeaderHeight, CurrentMinute |-> st.CurrentMinute,
   Syncing |-> st.Syncing, EOM |-> st.EOM, DBSig |-> st.DBSig,
   EOMProcessed |-> st.EOMProcessed, DBSigProcessed |-> st.DBSigProcessed,
   RunLeader |-> st.RunLeader, FactoidBalancesT |-> st.FactoidBalancesT,
   ECBalancesT |-> st.ECBalancesT]

\* the directory blocks AddDBState may be called with: new or not, a height,
\* a key Merkle root
Blocks == [isNew : BOOLEAN, ht : Heights, keyMR : KeyMRs]

AddBlock(st, b) == AddDBState(st, b.isNew, b.ht, b.keyMR)

\* AddDBState has been called with block b before, and did not fail
AddedBefore(st, b) ==
  st.DBStates[b.ht].Exists /\ ~CheckDBKeyMR(st, b.ht, b.keyMR)

\* C12: calling AddDBState again with the same directory block, of a height
\* h with 0 < h <= LLeaderHeight, leaves LLeaderHeight, CurrentMinute,
\* Syncing, EOM, DBSig, EOMProcessed, DBSigProcessed, RunLeader and the
\* temporary balance maps as they were.
C12_AddDBStateIdempotent ==
  \A b \in Blocks :
    (b.ht > 0 /\ b.ht <= s.LLeaderHeight /\ AddedBefore(s, b))
      => ConsensusView(AddBlock(s, b)) = ConsensusView(s)

\* the node is in the middle of a block, past minute 0, and holds the
\* DBState, not yet saved, of a block below: a second AddDBState of that
\* block goes past the nil return of NewDBState
C12_Witness ==
  \E b \in Blocks :
    /\ b.ht > 0 /\ b.ht < s.LLeaderHeight /\ AddedBefore(s, b)
    /\ ~NewDBStateIsNil(s, b.ht)
    /\ s.CurrentMinute > 0 /\ s.RunLeader
    /\ ConsensusView(AddBlock(s, b)) = ConsensusView(s)

\* the node of state st, configured for network n
OnNetwork(st, n) == [st EXCEPT !.Network = n]

\* the checkpoint of the height of block b contradicts it, on a node of
\* network n
ContradictsCheckPoint(n, b) ==
  /\ n \in {"MAIN", "main"}
  /\ b.ht \in DOMAIN CheckPoints
  /\ CheckPoints[b.ht] # b.keyMR

\* C19 as stated: AddDBState panics exactly when the network is MAIN or
\* main, a checkpoint exists for the height of the block and differs from
\* the block's KeyMR.
C19_PanicsIffCheckPointDiffers ==
  \A n \in Networks, b \in Blocks :
    AddBlock(OnNetwork(s, n), b).panicked <=> ContradictsCheckPoint(n, b)

\* C19: AddDBState panics exactly when NewDBState returned a DBState, the
\* network is MAIN or main, a checkpoint exists for the height of the block
\* and differs from the block's KeyMR; it then leaves LLeaderHeight,
\* CurrentMinute, Syncing, EOM and DBSig as they were.
C19_PanicsIffAddedAndCheckPointDiffers ==
  \A n \in Networks, b \in Blocks :
    LET t == AddBlock(OnNetwork(s, n), b)
    IN /\ t.panicked <=> (~NewDBStateIsNil(s, b.ht) /\ ContradictsCheckPoint(n, b))
       /\ t.panicked =>
            /\ t.LLeaderHeight = s.LLeaderHeight
            /\ t.CurrentMinute = s.CurrentMinute
            /\ t.Syncing = s.Syncing /\ t.EOM = s.EOM /\ t.DBSig = s.DBSig

\* a block that contradicts its checkpoint makes AddDBState panic in the
\* middle of a block, and the same block on another network does not
C19_Witness ==
  \E b \in Blocks :
    /\ s.CurrentMinute > 0 /\ s.Syncing
    /\ AddBlock(OnNetwork(s, "main"), b).panicked
    /\ ~AddBlock(OnNetwork(s, "TEST"), b).panicked



(***************************************************************************)
(* The entry machine: a node that has started the block it is at takes     *)
(* commits, reveals, their acks and missing-message responses.             *)
(***************************************************************************)
\* the most messages the network delivers in a run
MaxMsgs == 2

\* the most messages and acks that wait for their other half
MaxHeld == 2

\* the most missing-message responses of a run
MaxMMR == 1

EntryHashes == {50 + k : k \in 1 .. NumEntries}

\* ComputeVMIndex(hash): the VM of the minute's list a hash falls to
ComputeVMIndex(hash) == hash % NumFed

\* a commit of the network for entry eh; chain: a CommitChainMsg
NetCommit(eh, chain, credits) ==
  [NoMsg EXCEPT !.Nil = FALSE,
                !.Type = IF chain THEN "CommitChain" ELSE "CommitEntry",
                !.MsgHash = 300 + (20 * (eh - 50)) + (2 * credits)
                              + (IF chain THEN 1 ELSE 0),
                !.VMIndex = ComputeVMIndex(eh), !.EntryHash = eh,
                !.Credits = credits,
                !.Obj = 300 + (20 * (eh - 50)) + (2 * credits)
                          + (IF chain THEN 1 ELSE 0)]

\* a reveal of the network for entry eh: its hash is the entry hash
NetReveal(eh, v) ==
  [NoMsg EXCEPT !.Nil = FALSE, !.Type = "Reveal", !.MsgHash = eh,
                !.VMIndex = ComputeVMIndex(eh), !.EntryHash = eh, !.V = v,
                !.Obj = (2 * eh) + (IF v = 1 THEN 0 ELSE 1)]

Payload ==
  {NetCommit(eh, chain, credits) :
     eh \in EntryHashes, chain \in BOOLEAN, credits \in 1 .. MaxCredits}
    \cup {NetReveal(eh, v) : eh \in EntryHashes, v \in {1, -1}}

\* a MissingMsgResponse with an ack and a message: the response carries its
\* own copy of the message
NetMMR(ack, msg) ==
  [NoMsg EXCEPT !.Nil = FALSE, !.Type = "MMR", !.MsgHash = 400 + msg.Obj,
                !.Obj = 400 + msg.Obj]
    @@ [Inner |-> "Pair", AckResponse |-> ack,
        MsgResponse |-> [msg EXCEPT !.Obj = 1000 + @],
        AckValidate |-> 1, FaultValidate |-> 1, Complete |-> FALSE]

\* the places of log where executeMsg found a message invalid
InvalidsOf(log) == {k \in DOMAIN log : log[k].ev = "invalid"}

\* the places of log where executeMsg parked a message that is not yet
\* valid
ParkedOf(log) == {k \in DOMAIN log : log[k].ev = "parked"}

\* the places of log where a reveal went into a process list under a commit
PairedOf(log) ==
  {k \in DOMAIN log : log[k].ev = "reveal" /\ log[k].commitBefore}

\* the state a step left, as the next step finds it
Rest(t) == [t EXCEPT !.log = <<>>, !.env = NoEnv]

\* the node takes the DirectoryBlockSignature of VM vm and its ack, unless
\* it leads the VM
TurnRun(st, acks, msgs) == Rest(Turn([st EXCEPT !.env = RunEnv], acks, msgs))

\* a is the state with the signature dbs of VM vm in Holding
StartAck(a, vm, dbs) == TurnRun(a, <<NetAck(a, a.LLeaderHeight, vm, dbs)>>, <<>>)

StartVM(st, vm) ==
  IF st.Leader /\ vm = st.LeaderVMIndex THEN st
  ELSE StartAck(TurnRun(st, <<>>, <<NetDBSig(st.LLeaderHeight, vm, TRUE)>>), vm,
                NetDBSig(st.LLeaderHeight, vm, TRUE))

RECURSIVE StartVMs(_, _)
StartVMs(st, vm) ==
  IF vm \notin VMs THEN st ELSE StartVMs(StartVM(st, vm), vm + 1)

\* the node after the signatures of the block before are in
Started(id) ==
  TurnRun(StartVMs(TurnRun(Booted(id), <<>>, <<>>), 0), <<>>, <<>>)

InitMsg ==
  /\ s = Started(1)
  /\ g = NoHistory @@ [sent |-> {}, found |-> {}, parked |-> {}, paired |-> {}]

\* the step ends in state t, unless the program crashed; objs: the message
\* objects the network delivered
Deliver(t, objs) ==
  /\ ~t.panicked
  /\ s' = Rest(t)
  /\ g' = [g EXCEPT !.mins = Stamp(g.mins, t.log).mins,
                    !.events = Stamp(g.mins, t.log).events,
                    !.sent = @ \cup objs,
                    !.found = @ \cup {t.log[k].obj : k \in InvalidsOf(t.log)},
                    !.parked = @ \cup {t.log[k].obj : k \in ParkedOf(t.log)},
                    !.paired = @ \cup {t.log[k].eh : k \in PairedOf(t.log)}]

\* the network may deliver message m: not delivered before
Fresh(m) ==
  /\ m.Obj \notin g.sent
  /\ Cardinality(g.sent) < MaxMsgs
  /\ Pending(s) < MaxHeld

MsgTick ==
  \E env \in TickEnvs : Deliver(Turn([s EXCEPT !.env = env], <<>>, <<>>), {})

\* the step takes acks and msgs from the queues; objs: the message objects
\* the network delivered
Recv(acks, msgs, objs) ==
  Deliver(Turn([s EXCEPT !.env = RunEnv], acks, msgs), objs)

MsgRecv ==
  \E m \in Payload : Fresh(m) /\ Recv(<<>>, <<m>>, {m.Obj})

\* a pass of Process and UpdateState within a step
TurnOn(st, acks, msgs) ==
  [Turn([st EXCEPT !.env = RunEnv], acks, msgs) EXCEPT !.env = NoEnv]

\* a is the state with the EndOfMinute eom of VM vm in Holding
EndAck(a, vm, eom) == TurnOn(a, <<NetAck(a, a.LLeaderHeight, vm, eom)>>, <<>>)

\* the node takes the EndOfMinute of VM vm and its ack, unless it leads
\* the VM
EndVM(st, vm) ==
  IF st.Leader /\ vm = st.LeaderVMIndex THEN st
  ELSE EndAck(TurnOn(st, <<>>, <<NetEOM(st.LLeaderHeight, vm, st.CurrentMinute)>>),
              vm, NetEOM(st.LLeaderHeight, vm, st.CurrentMinute))

RECURSIVE EndVMs(_, _)
EndVMs(st, vm) ==
  IF vm \notin VMs \/ st.panicked THEN st ELSE EndVMs(EndVM(st, vm), vm + 1)

\* the first minute ends: the timer fires, and the EndOfMinutes of the
\* other VMs come in with their acks, each in a pass of its own.  The
\* minute is ended only when no message and no ack waits for its other
\* half: a bound on the schedules explored, not a condition of the code
MsgMinute ==
  /\ s.CurrentMinute = 0
  /\ Pending(s) = 0
  /\ Deliver(TurnOn(EndVMs(TurnOn(s, <<>>, <<LocalEOM>>), 0), <<>>, <<>>), {})

\* the ack the leader of the VM made for m, for a VM the node does not lead
MsgAck ==
  \E m \in Payload :
    /\ m.V = 1
    /\ ~(s.Leader /\ m.VMIndex = s.LeaderVMIndex)
    /\ Room(s, m.VMIndex)
    /\ m.MsgHash \in DOMAIN s.Holding \/ (Pending(s) = 0 /\ m.Obj \notin g.sent)
    /\ Recv(<<NetAck(s, s.LLeaderHeight, m.VMIndex, m)>>, <<>>, {})

\* a peer answers a MissingMsg request with an ack and a message
\* the peer answers with the ack of message n and message m; old: the ack was
\* made before the replay window
AckOf(st, n, old) == [NetAck(st, st.LLeaderHeight, n.VMIndex, n) EXCEPT !.Old = old]

\* the response as it arrives: bad, its Validate finds it invalid
Arrives(r, bad) == [r EXCEPT !.V = IF bad THEN -1 ELSE 1]

MsgMMR ==
  \E m \in Payload, n \in Payload, old \in BOOLEAN, bad \in BOOLEAN :
    /\ n.V = 1
    /\ old => ~ReplayValid(s, "INTERNAL", m.MsgHash, m.Old)
    /\ bad => (~old /\ m = n)
    /\ Fresh(NetMMR(AckOf(s, n, old), m))
    /\ Cardinality({o \in g.sent : o >= 400}) < MaxMMR
    /\ Room(s, n.VMIndex)
    /\ Recv(<<>>, <<Arrives(NetMMR(AckOf(s, n, old), m), bad)>>, {400 + m.Obj})

NextMsg == MsgTick \/ MsgRecv \/ MsgAck \/ MsgMMR \/ MsgMinute

SpecMsg == InitMsg /\ [][NextMsg]_vars

(***************************************************************************)
(* Properties of executeMsg.                                               *)
(***************************************************************************)
\* the events of the last step that found a message invalid
Invalids == {k \in DOMAIN g.events : g.events[k].e.ev = "invalid"}

\* C20: whenever executeMsg finds a message object invalid, the message is
\* in Holding after the call, and it is pushed to networkInvalidMsgQueue by
\* the call iff no earlier call found the object invalid; so no object is
\* in the queue twice.  g.found: the objects found invalid in earlier steps.
C20_InvalidSentOnce ==
  [][/\ \A k \in {i \in DOMAIN g'.events : g'.events[i].e.ev = "invalid"} :
          LET e == g'.events[k].e
          IN /\ e.held
             /\ e.pushed <=>
                  /\ e.obj \notin g.found
                  /\ \A j \in 1 .. k - 1 :
                       g'.events[j].e.ev = "invalid" => g'.events[j].e.obj # e.obj
     /\ \A i, j \in DOMAIN s'.networkInvalidMsgQueue :
          i # j => s'.networkInvalidMsgQueue[i].Obj # s'.networkInvalidMsgQueue[j].Obj
    ]_vars

\* the last step found one message object invalid twice: it was pushed by
\* the first call, not by the second, and is in the queue
C20_Witness ==
  \E j, k \in Invalids :
    /\ j < k
    /\ g.events[j].e.obj = g.events[k].e.obj
    /\ g.events[j].e.pushed /\ ~g.events[k].e.pushed
    /\ \E i \in DOMAIN s.networkInvalidMsgQueue :
         s.networkInvalidMsgQueue[i].Obj = g.events[k].e.obj

(***************************************************************************)
(* Properties of the round trip through Holding.                           *)
(***************************************************************************)
\* the pass of Process in which ReviewHolding moves the held messages to
\* XReview and Process executes them
RoundTrip(st) ==
  Turn([st EXCEPT !.env = [RunEnv EXCEPT !.review = TRUE]], <<>>, <<>>)

\* the pass of Process that takes m from the message queue, in the state
\* that does not hold it
Direct(st, m) ==
  Turn([st EXCEPT !.Holding = MapDelete(@, m.MsgHash), !.env = RunEnv], <<>>, <<m>>)

Effects(st) ==
  [ProcessLists |-> st.ProcessLists, Acks |-> st.Acks, Commits |-> st.Commits,
   Holding |-> st.Holding]

\* m is the one message in Holding, executeMsg parked it when it was not
\* yet valid, it is valid now and the next review moves it to XReview
RoundTrips(m) ==
  /\ DOMAIN s.Holding = {m.MsgHash} /\ s.Holding[m.MsgHash] = m
  /\ s.XReview = <<>>
  /\ m.Obj \in g.parked
  /\ Validate(s, m) = 1
  /\ ReplayValid(s, "INTERNAL", m.MsgHash, m.Old)
  /\ Effects(TurnOn(s, <<>>, <<>>)) = Effects(s)

\* C11: a message that executeMsg parked in Holding with Validate = 0, and
\* that a review pass executes with Validate = 1, leaves the process lists,
\* Acks, Commits and Holding as the direct execution of it does
C11_RoundTripAsDirect ==
  \A k \in DOMAIN s.Holding :
    RoundTrips(s.Holding[k])
      => Effects(RoundTrip(s)) = Effects(Direct(s, s.Holding[k]))

(***************************************************************************)
(* Properties of the commits.                                              *)
(***************************************************************************)
NetCommits == {c \in Payload : c.Type \in {"CommitChain", "CommitEntry"}}

\* C8: a commit offered to PutCommit for an entry hash whose stored commit
\* has as many credits or more does not replace the stored commit, whatever
\* the types of the two
C8_StoredCommitHasMostCredits ==
  \A c \in NetCommits :
    LET cur == NextCommit(s, c.EntryHash)
    IN (~cur.Nil /\ c.Credits <= cur.Credits)
         => NextCommit(PutCommit(s, c.EntryHash, c), c.EntryHash) = cur

\* the reveals the last step put in a process list
Accepted == {k \in DOMAIN g.events : g.events[k].e.ev = "reveal"}

\* C7: when a RevealEntry goes into a process list, on the leader path or
\* on the follower path, Commits holds a commit for its entry hash just
\* before, and just after Commits holds none and the REVEAL replay filter
\* is sealed for the hash
C7_RevealConsumesCommit ==
  \A k \in Accepted :
    /\ g.events[k].e.commitBefore
    /\ ~g.events[k].e.commitAfter
    /\ g.events[k].e.sealed

(***************************************************************************)
(* Properties of the process lists.                                        *)
(***************************************************************************)
\* the filled slots of the list of VM i of the process list of height h
Slots(st, h, i) ==
  {j \in DOMAIN st.ProcessLists[h].VMs[i].List :
     ~IsNilSlot(st.ProcessLists[h].VMs[i].List[j])}

\* C5: every message in slot j of VM i of a process list is there with an ack
\* for its hash, for VM i and for the height of the slot
C5_SlotHoldsAckOfMessage ==
  \A h \in PLHeights, i \in VMs :
    \A j \in Slots(s, h, i) :
      LET sl == s.ProcessLists[h].VMs[i].List[j]
      IN /\ sl.Ack.MessageHash = sl.Msg.MsgHash
         /\ sl.Ack.VMIndex = i
         /\ sl.Ack.Height = j - 1

(***************************************************************************)
(* Properties of NewAck.                                                   *)
(***************************************************************************)
\* the messages the node can acknowledge as leader
Ackable ==
  {m \in Payload : s.Leader /\ m.VMIndex = s.LeaderVMIndex /\ ~NewAckPanics(s, m)}

\* C6: the ack NewAck builds for a message has height 0 and the message's
\* hash as SerialHash when the list of the VM is empty; otherwise its height
\* is one more than the last ack's, and its SerialHash is the hash of the
\* last ack's SerialHash and the message's hash
C6_NewAckChainsSerialHash ==
  \A m \in Ackable :
    LET list == s.ProcessLists[s.LeaderPL].VMs[m.VMIndex].List
        last == list[Len(list)].Ack
        ack == NewAck(s, m)
    IN IF Len(list) = 0
       THEN ack.Height = 0 /\ ack.SerialHash = Leaf(m.MsgHash)
       ELSE /\ ack.Height = last.Height + 1
            /\ ack.SerialHash = CreateHash(last.SerialHash, Leaf(m.MsgHash))

(***************************************************************************)
(* Properties of an ack and its message on a follower.                     *)
(***************************************************************************)
\* the ack a comes in a pass of Process and message m in the next one
AckThenMsg(st, a, m) == TurnRun(TurnRun(st, <<a>>, <<>>), <<>>, <<m>>)

\* message m comes in a pass of Process and the ack a in the next one
MsgThenAck(st, a, m) == TurnRun(TurnRun(st, <<>>, <<m>>), <<a>>, <<>>)

\* in state t the pair (a, m) is in the slot a names, and m is not held
Landed(t, a, m) ==
  LET list == t.ProcessLists[a.DBHeight].VMs[a.VMIndex].List
  IN /\ Len(list) > a.Height
     /\ list[a.Height + 1] = [Ack |-> a, Msg |-> [m EXCEPT !.Minute = a.Minute]]
     /\ m.MsgHash \notin DOMAIN t.Holding

\* the node follows the VM of m, m is valid now and new to the node, and
\* nothing waits in Holding, Acks or XReview
FollowerCase(m) ==
  /\ ~(s.Leader /\ m.VMIndex = s.LeaderVMIndex)
  /\ Validate(s, m) = 1
  /\ ReplayValid(s, "INTERNAL", m.MsgHash, m.Old)
  /\ m.Obj \notin g.sent
  /\ Pending(s) = 0 /\ s.XReview = <<>>

\* the outcome of both orders, for the ack a of m
BothOrders(a, m) ==
  /\ AckThenMsg(s, a, m) = MsgThenAck(s, a, m)
  /\ Landed(AckThenMsg(s, a, m), a, m)

\* C10: on a follower, an ack and its valid message end in the same state
\* whether the ack or the message comes first: the pair is in the slot the
\* ack names and the message is not in Holding
C10_AckAndMsgCommute ==
  \A m \in Payload :
    FollowerCase(m) => BothOrders(NetAck(s, s.LLeaderHeight, m.VMIndex, m), m)

\* a commit, and a reveal whose commit is in Commits, are about to come to
\* the follower with their acks
C10_Witness ==
  /\ \E m \in Payload : FollowerCase(m) /\ m.Type = "Reveal"
  /\ \E m \in Payload : FollowerCase(m) /\ m.Type = "CommitChain"

\* the State after a pass of Process that takes commit c from the message
\* queue
Offered(c) == TurnOn(s, <<>>, <<c>>)

\* the pass neither stored a commit for the entry of c nor acknowledged c
Rejected(t, c) ==
  /\ NextCommit(t, c.EntryHash).Nil
  /\ \A k \in DOMAIN t.log : t.log[k].ev # "acked"

\* a reveal for the entry of c went into a process list under a commit, which
\* it consumed; c comes later and nothing waits
Consumed(c) ==
  /\ c.EntryHash \in g.paired
  /\ NextCommit(s, c.EntryHash).Nil
  /\ c.Obj \notin g.sent
  /\ Pending(s) = 0 /\ s.XReview = <<>>

\* C9: after a reveal for an entry hash has gone into a process list under a
\* commit, a later commit for that hash is rejected by IsHighestCommit: it is
\* neither stored in Commits nor acknowledged by the leader
C9_LaterCommitRejected ==
  \A c \in NetCommits :
    Consumed(c) => ~IsHighestCommit(s, c.EntryHash, c) /\ Rejected(Offered(c), c)


(***************************************************************************)
(* What Process sends out to the network (src 194-205, 231-238).           *)
(***************************************************************************)
\* the messages the step sent out from the loops of Process
SentOut == {k \in 1 .. Len(g.events) : g.events[k].e.ev = "sendout"}

\* C21: a message Process sends out, from the loop over the inbound queue or
\* from the pump of the process channel, is not peer-to-peer and is one for
\* which executeMsg returned true in that loop.
C21_SentOutOnlyIfExecuted ==
  \A k \in SentOut : ~g.events[k].e.p2p /\ g.events[k].e.executed


(***************************************************************************)
(* The path executeMsg takes for a message it finds valid (src 55-74).     *)
(***************************************************************************)
\* the messages a node may be handed in the state it is in
Handed == SyncMsgs(s) \cup {LocalEOM}

\* executeMsg gets past the replay filter and the start-up window with m,
\* and finds it valid
Executes(st, m) ==
  /\ ReplayValid(st, "INTERNAL", m.MsgHash, m.Old)
  /\ ~(st.IgnoreMissing /\ m.Old)
  /\ Validate(st, m) = 1

\* the VM of vmref is at the end of its list, the node runs as the leader,
\* the minute's synchronisation has not counted the VM, the message is the
\* node's own or of the VM it leads, and the node is not behind
LeaderMay(st, vmref, m) ==
  LET vm == st.ProcessLists[vmref.PL].VMs[vmref.Index]
  IN /\ st.RunLeader /\ st.Leader
     /\ vm.Height = Len(vm.List)
     /\ (~st.Syncing \/ ~vm.Synced)
     /\ (m.Local \/ m.VMIndex = st.LeaderVMIndex)
     /\ st.LeaderPL + 1 >= st.HighestKnown

\* C22: for a message with Validate = 1, executeMsg returns true; it takes
\* the follower path unless RunLeader, Leader, not Saving, VM.Height =
\* len(VM.List), (not Syncing or not VM.Synced), (the message is local or of
\* the leader's VM) and LeaderPL.DBHeight + 1 >= HighestKnown all hold, and
\* the leader path when they hold for the VM the node leads; while Saving is
\* true it takes the follower path.
C22_LeaderPathOnlyWhenReady ==
  \A m \in Handed, vmref \in {LeaderVM(s), NilVM} :
    Executes(s, m) =>
      LET r == executeMsg(s, vmref, m)
      IN /\ r.ret
         /\ ~(LeaderMay(s, vmref, m) /\ ~s.Saving) => r.s = FollowerExecute(s, m)
         /\ (LeaderMay(s, vmref, m) /\ ~s.Saving /\ ~vmref.Nil)
              => r.s = LeaderPath(s, vmref, m)
         /\ s.Saving => r.s = FollowerExecute(s, m)

\* the node leads a VM and everything but Saving lets it lead-execute a
\* message, which then goes the follower's way, with another outcome
C22_Witness ==
  \E m \in Handed :
    /\ Executes(s, m) /\ s.Saving /\ LeaderMay(s, LeaderVM(s), m)
    /\ executeMsg(s, LeaderVM(s), m).s = FollowerExecute(s, m)
    /\ FollowerExecute(s, m) # LeaderPath(s, LeaderVM(s), m)


(***************************************************************************)
(* What a pass of ReviewHolding does with the held messages (src 292-378). *)
(* The pass is taken for every answer of Expire and Resend, and for        *)
(* heights of the saved and the highest known block around its thresholds. *)
(***************************************************************************)
\* what the review pass finds outside the State
ReviewEnvs ==
  {[NoEnv EXCEPT !.review = TRUE, !.desc = d, !.Expire = e, !.Resend = r] :
     d, e, r \in BOOLEAN}

\* the heights of the highest saved block
SavedHeights == 0 .. 3

\* how far above the saved block the highest known block is
KnownAhead == {0, 1, 2, 3, 4, 5, HoldingMaxBacklog, HoldingMaxBacklog + 1}

\* the hashes of the messages the pass sent out again
Resent(t) == {t.log[j].hash : j \in {i \in 1 .. Len(t.log) : t.log[i].ev = "resent"}}

\* the hashes of the messages the pass appended to XReview
Reviewed(t) == {t.XReview[j].MsgHash : j \in 1 .. Len(t.XReview)}

\* C23: when HighestKnown - Saved > 1000, the pass removes every held
\* message from Holding, appends none to XReview and resends none.
C23_BacklogDropsAll ==
  \A env \in ReviewEnvs, saved \in SavedHeights :
    s.XReview = <<>> =>
      LET t == ReviewPass([s EXCEPT !.env = env], saved,
                          saved + HoldingMaxBacklog + 1)
      IN /\ DOMAIN t.Holding = {}
         /\ Reviewed(t) = {}
         /\ Resent(t) = {}


\* the pass of ReviewHolding over the Holding of the state, for what env
\* says of Expire and Resend
Pass(env) == ReviewHolding([s EXCEPT !.env = env])

\* the pass dropped the held message v: by the pruning of its type, the
\* replay filter, its expiry, or because it is invalid
Dropped(env, v) ==
  \/ TypePrune(v, GetHighestSavedBlk(s), s.HighestKnown) = "drop"
  \/ ~ReplayValid(s, "INTERNAL", v.MsgHash, v.Old)
  \/ env.Expire
  \/ Validate(s, v) < 0

\* C24: after a pass of ReviewHolding that runs, a message still in Holding
\* is one the pass resent (Resend true and Validate = 1), and every other
\* held message, of any type, that the pass did not drop is in XReview and
\* no longer in Holding.
C24_HeldAreResentOrReviewed ==
  \A env \in ReviewEnvs :
    s.XReview = <<>> =>
      \A k \in DOMAIN s.Holding :
        IF k \in DOMAIN Pass(env).Holding
        THEN env.Resend /\ Validate(s, s.Holding[k]) = 1 /\ k \in Resent(Pass(env))
        ELSE ~Dropped(env, s.Holding[k]) => k \in Reviewed(Pass(env))


\* the held EOMs and DirectoryBlockSignatures
HeldSync == {k \in DOMAIN s.Holding : s.Holding[k].Type \in {"EOM", "DBSig"}}

\* the pass that ends in state t dropped the message held under k: it is no
\* longer held, and was neither handed to XReview nor sent out again
DroppedBy(t, k) ==
  k \notin DOMAIN t.Holding /\ k \notin Reviewed(t) /\ k \notin Resent(t)

\* the pass would hand on message v, were it not pruned
Passes(env, v) ==
  /\ ReplayValid(s, "INTERNAL", v.MsgHash, v.Old)
  /\ ~env.Expire
  /\ Validate(s, v) >= 0

\* C25 as stated: a pass drops every held EOM and DirectoryBlockSignature
\* whose DBHeight <= Saved or whose DBHeight < HighestKnown - 3, whatever
\* Saved and HighestKnown are.
C25_PrunesBelowSavedOrBehind ==
  \A env \in ReviewEnvs, saved \in SavedHeights, ahead \in KnownAhead :
    s.XReview = <<>> =>
      \A k \in HeldSync :
        (s.Holding[k].DBHeight <= saved
           \/ s.Holding[k].DBHeight < (saved + ahead) - HoldingBehind)
          => DroppedBy(ReviewPass([s EXCEPT !.env = env], saved, saved + ahead), k)

\* C25: a pass drops every held EOM and DirectoryBlockSignature whose
\* DBHeight <= Saved when Saved > 0, or whose DBHeight < HighestKnown - 3
\* when HighestKnown > 2; one that meets neither test, is inside the replay
\* window, has not expired and is not invalid is handed to XReview or sent
\* out again.
C25_PrunesWhenGuardsHold ==
  \A env \in ReviewEnvs, saved \in SavedHeights, ahead \in KnownAhead :
    s.XReview = <<>> =>
      \A k \in HeldSync :
        LET v == s.Holding[k]
            highest == saved + ahead
            t == ReviewPass([s EXCEPT !.env = env], saved, highest)
        IN IF (saved > 0 /\ v.DBHeight <= saved)
                \/ (highest > 2 /\ v.DBHeight < highest - HoldingBehind)
           THEN DroppedBy(t, k)
           ELSE Passes(env, v) => (k \in Reviewed(t) \/ k \in Resent(t))

\* a node that has saved no block holds an EOM or a DirectoryBlockSignature
\* of height 0: its pass hands the message to XReview, and the pass of a
\* node that has saved block 1 drops it
C25_Witness ==
  \E env \in ReviewEnvs, k \in HeldSync :
    /\ s.XReview = <<>> /\ GetHighestSavedBlk(s) = 0 /\ s.Holding[k].DBHeight = 0
    /\ k \in Reviewed(Pass(env))
    /\ DroppedBy(ReviewPass([s EXCEPT !.env = env], 1, s.HighestKnown), k)


(***************************************************************************)
(* The double-spend scan of FollowerExecuteDBState (src 626-674).  A node  *)
(* is offered the block of a height with a list of transactions.           *)
(***************************************************************************)
\* the transactions of the blocks a node is offered
OfferedTxs == {<<70>>, <<70, 71>>, <<72, 71>>, <<71, 72>>}

\* FollowerExecuteDBState gets to the scan with msg: it is the next block,
\* AddDBState returns a DBState and does not panic
Scans(st, msg) ==
  /\ ~(msg.DBHeight > 0 /\ msg.DBHeight <= GetHighestSavedBlk(st)
         /\ msg.DBHeight < st.EntryDBHeightComplete)
  /\ ValidNext(st, msg) = 1
  /\ ~NewDBStateIsNil(st, msg.DBHeight)
  /\ ~AddDBState(st, FALSE, msg.DBHeight, msg.KeyMR).panicked

\* a transaction of the block other than the coinbase is sealed in
\* BLOCK_REPLAY
Replayed(st, txs) == \E i \in 2 .. Len(txs) : txs[i] \in st.FReplay

\* the DBState of height h has one of the flags an applied block gets
Flagged(st, h) ==
  st.DBStates[h].Exists
    /\ (st.DBStates[h].ReadyToSave \/ st.DBStates[h].Signed \/ st.DBStates[h].Saved)

\* C26: when FollowerExecuteDBState gets to the scan with a block of a
\* scanned height in which a transaction other than the coinbase is a
\* replay, it seals no transaction of the block in BLOCK_REPLAY, sets none
\* of ReadyToSave, Signed and Saved of the DBState, and does not set Saving.
C26_DoubleSpendRejectsBlock ==
  \A h \in Heights \ {0}, txs \in OfferedTxs :
    (Scans(s, BlockMsg(h, txs)) /\ Replayed(s, txs))
      => LET t == FollowerExecuteDBState(s, BlockMsg(h, txs))
         IN /\ t.FReplay = s.FReplay
            /\ Flagged(t, h) => Flagged(s, h)
            /\ t.Saving => s.Saving

\* a node that has sealed the transactions of a block is offered the next
\* block with one of them again: AddDBState takes the block in, the scan
\* gives it up; the same block with new transactions is applied
C26_Witness ==
  \E h \in Heights \ {0} :
    /\ Scans(s, BlockMsg(h, <<72, 71>>)) /\ Replayed(s, <<72, 71>>)
    /\ ~s.Saving /\ ~s.DBStates[h].Exists
    /\ FollowerExecuteDBState(s, BlockMsg(h, <<72, 71>>)).DBStates[h].Exists
    /\ ~FollowerExecuteDBState(s, BlockMsg(h, <<72, 71>>)).Saving
    /\ FollowerExecuteDBState(s, BlockMsg(h, <<72>>)).Saving


\* heights at and around the limits of the scan
ScanSamples ==
  {0, 1, 2, ScanLow - 1, ScanLow, ScanLow + 1, ScanHigh - 1, ScanHigh, ScanHigh + 1}

\* every transaction of the block is sealed in BLOCK_REPLAY
Sealed(st, txs) == \A i \in 1 .. Len(txs) : txs[i] \in st.FReplay

\* C27 as stated: the scan gives up a block exactly when a transaction other
\* than the coinbase is a replay and the height is in 1..2000 or above
\* 100000.
C27_ScansThroughHeight2000 ==
  \A h \in ScanSamples, txs \in OfferedTxs :
    ScanRejects(s, BlockMsg(h, txs), h)
      <=> (Replayed(s, txs) /\ (h \in 1 .. ScanLow \/ h > ScanHigh))

\* C27: the scan gives up a block exactly when a transaction other than the
\* coinbase is a replay and the height is in 1..1999 or above 100000; a
\* block of height 0 or 2000..100000 is not given up, nor is one whose only
\* replayed transaction is the coinbase; of a block the scan is at, no
\* transaction is sealed when the scan gives it up, and all are sealed and
\* Saving is set when it does not.
C27_ScansBelowHeight2000 ==
  /\ \A h \in ScanSamples, txs \in OfferedTxs :
       ScanRejects(s, BlockMsg(h, txs), h)
         <=> (Replayed(s, txs) /\ (h \in 1 .. (ScanLow - 1) \/ h > ScanHigh))
  /\ \A h \in Heights \ {0}, txs \in OfferedTxs :
       Scans(s, BlockMsg(h, txs))
         => IF ScanRejects(s, BlockMsg(h, txs), h)
            THEN FollowerExecuteDBState(s, BlockMsg(h, txs)).FReplay = s.FReplay
            ELSE /\ Sealed(FollowerExecuteDBState(s, BlockMsg(h, txs)), txs)
                 /\ FollowerExecuteDBState(s, BlockMsg(h, txs)).Saving

\* a node has sealed transactions 70 and 71: the scan gives up a block of
\* height 1999 and one above 100000 that spend 71 again, not one of height
\* 2000 or 0, and not a block whose coinbase is 71
C27_Witness ==
  /\ s.FReplay = {70, 71}
  /\ ScanRejects(s, BlockMsg(ScanLow - 1, <<72, 71>>), ScanLow - 1)
  /\ ScanRejects(s, BlockMsg(ScanHigh + 1, <<72, 71>>), ScanHigh + 1)
  /\ ~ScanRejects(s, BlockMsg(ScanLow, <<72, 71>>), ScanLow)
  /\ ~ScanRejects(s, BlockMsg(0, <<72, 71>>), 0)
  /\ ~ScanRejects(s, BlockMsg(1, <<71, 72>>), 1)
  /\ \E h \in Heights \ {0} :
       /\ Scans(s, BlockMsg(h, <<72, 71>>))
       /\ ~Sealed(FollowerExecuteDBState(s, BlockMsg(h, <<72, 71>>)), <<72, 71>>)
       /\ Sealed(FollowerExecuteDBState(s, BlockMsg(h, <<71, 72>>)), <<71, 72>>)


(***************************************************************************)
(* ProcessEOM and the EOMs it is handed (src 1339-1424).                   *)
(***************************************************************************)
\* the EOMs of the minute the node is at, of any height
AnyEOMs ==
  {NetEOM(h, vm, minute) : h \in Heights, vm \in VMs, minute \in MinutesSent(s)}

\* what ProcessEOM keeps of the VMs of the list of height d
SyncView(st, d) ==
  [i \in VMs |-> <<st.ProcessLists[d].VMs[i].Synced,
                   st.ProcessLists[d].VMs[i].LeaderMinute>>]

\* C28: while EOM is true, ProcessEOM of an EOM whose DBHeight is not the
\* height of the list it is processed at returns false, marks no VM Synced
\* and leaves LeaderMinute and EOMProcessed as they were.
C28_ForeignEOMNotProcessed ==
  \A e \in AnyEOMs :
    (s.EOM /\ e.DBHeight # s.LLeaderHeight)
      => /\ ~ProcessEOM(s, s.LLeaderHeight, e).ret
         /\ SyncView(ProcessEOM(s, s.LLeaderHeight, e).s, s.LLeaderHeight)
              = SyncView(s, s.LLeaderHeight)
         /\ ProcessEOM(s, s.LLeaderHeight, e).s.EOMProcessed = s.EOMProcessed


\* the EOMs the step returned as processed
EOMsOut == {k \in 1 .. Len(g.events) : g.events[k].e.ev = "eomout"}

\* every EOM the step returned as processed left a synchronisation that was
\* open, in which its VM was counted as Synced and after which a minute
\* completed at that height, with the DBState below saved
EOMOutInOpenSync ==
  \A k \in EOMsOut :
    /\ g.events[k].e.open /\ g.events[k].e.synced /\ g.events[k].e.below
    /\ g.events[k].done # <<>>

\* C29: when ProcessEOM returns true for an EOM, the completion step of the
\* EOM's minute has run at that height and is the latest to have run there,
\* the synchronisation is open with the EOM's VM counted as Synced, and the
\* DBState of the height below exists and is Saved.
C29_EOMOutAfterOwnCompletion ==
  \A k \in EOMsOut :
    /\ g.events[k].e.open /\ g.events[k].e.synced /\ g.events[k].e.below
    /\ g.events[k].done # <<>>
    /\ g.events[k].done[Len(g.events[k].done)] = g.events[k].e.minute

(***************************************************************************)
(* ProcessDBSig on the DBSig a VM is to process next, with a signature     *)
(* that verifies or one that does not.                                     *)
(***************************************************************************)
\* the lists whose next message is a DBSig
DBSigsDue(st) ==
  {d \in PLHeights \X VMs :
     LET vm == st.ProcessLists[d[1]].VMs[d[2]]
     IN /\ vm.Height < Len(vm.List)
        /\ ~IsNilSlot(vm.List[vm.Height + 1])
        /\ vm.List[vm.Height + 1].Msg.Type = "DBSig"}

\* the DBSig due in list d carries a signature that verifies iff sig
SignedAs(st, d, sig) ==
  LET j == st.ProcessLists[d[1]].VMs[d[2]].Height + 1
  IN [st EXCEPT !.ProcessLists[d[1]].VMs[d[2]].List[j].Msg.SigOK = sig]

DueDBSig(st, d) ==
  LET vm == st.ProcessLists[d[1]].VMs[d[2]]
  IN vm.List[vm.Height + 1].Msg

\* what the signature check may say of the DBSig due in list d: a DBSig that
\* matched has a signature that verifies
SigChecks(st, d) == IF DueDBSig(st, d).Matches THEN {TRUE} ELSE BOOLEAN

\* msg.Process of the DBSig due in list d
DBSigCall(st, d) ==
  ProcessDBSig(st, d[1], DueDBSig(st, d), d[2],
               st.ProcessLists[d[1]].VMs[d[2]].Height + 1)

\* the call sets DBSigDone or clears Saving
DBSigCloses(t, r) ==
  (r.s.DBSigDone /\ ~t.DBSigDone) \/ (t.Saving /\ ~r.s.Saving)

\* the call starts the synchronisation of the DBSigs (src 1619), which
\* counts from 0 with no VM Synced
DBSigStarts(t) == ~t.Syncing /\ ~t.DBSig

\* the call neither counted the DBSig nor marked its VM Synced
NotCounted(t, r, d) ==
  LET vm == DueDBSig(t, d).VMIndex
  IN /\ r.s.DBSigProcessed <= (IF DBSigStarts(t) THEN 0 ELSE t.DBSigProcessed)
     /\ r.s.ProcessLists[d[1]].VMs[vm].Synced
          => (~DBSigStarts(t) /\ t.ProcessLists[d[1]].VMs[vm].Synced)
     /\ ~r.s.ProcessLists[d[1]].VMs[d[2]].List[t.ProcessLists[d[1]].VMs[d[2]].Height + 1].Msg.Matches

\* the synchronisations of DBSigs the step closed
DBSigsDone == {k \in 1 .. Len(g.events) : g.events[k].e.ev = "dbsigdone"}

\* C30: ProcessDBSig sets DBSigDone and clears Saving only when all faults
\* are handled, DBSigProcessed has reached DBSigLimit, which is the number of
\* federated servers, and every federated VM with a non-empty list holds at
\* slot 0 a DBSig that matched (body hash and signature both right); a DBSig
\* failing either check is not counted and does not mark its VM Synced.
C30_DBSigDoneOnlyWhenAllMatched ==
  \A d \in DBSigsDue(s) : \A sig \in SigChecks(s, d) :
    LET t == SignedAs(s, d, sig)
        r == DBSigCall(t, d)
    IN /\ DBSigCloses(t, r) => DBSigClosedRight(r.s, d[1])
       /\ (~DueDBSig(t, d).BodyOK \/ ~sig) => NotCounted(t, r, d)
       /\ \A k \in DBSigsDone : g.events[k].e.right

\* the last DBSig of a block closes the synchronisation of a saving node
\* whose federated VMs all hold a DBSig
C30_Witness ==
  \E k \in DBSigsDone :
    /\ g.events[k].e.saving /\ ~g.events[k].e.done
    /\ ~s.Saving /\ s.DBSigLimit = NumFed
    /\ \A i \in VMs : s.ProcessLists[g.events[k].e.height].VMs[i].List # <<>>

(***************************************************************************)
(* The leader and the commits it has a better one for (src 1043-1068).     *)
(***************************************************************************)
\* the State after the leader handler of commit c
LeaderCommit(st, c) ==
  IF c.Type = "CommitChain" THEN LeaderExecuteCommitChain(st, c)
  ELSE LeaderExecuteCommitEntry(st, c)

\* the handler built no ack for a commit and put nothing in a process list
NoAckBuilt(st, t) ==
  /\ t.ProcessLists = st.ProcessLists
  /\ \A k \in DOMAIN t.log : t.log[k].ev # "acked"

\* C31: the leader handlers of CommitChain and CommitEntry return without
\* building an ack or adding the commit to a process list when
\* IsHighestCommit is false for the commit
C31_LowerCommitNotAcked ==
  \A c \in NetCommits :
    (LeaderReady(s, LeaderVM(s), c) /\ ~IsHighestCommit(s, c.EntryHash, c))
      => NoAckBuilt(s, LeaderCommit(s, c))

(***************************************************************************)
(* ClearFault (src 1789-1800).  WhenFaulted of a VM is set by the fault    *)
(* detection of the node when it sees the VM's leader fail, and is 0 while *)
(* the node sees no fault.                                                 *)
(***************************************************************************)
FaultTimes == {0, 1}

\* ff passes the tests of src 1757-1787 in st
FaultInTurn(st, ff) ==
  /\ ~ff.AlreadyProcessed
  /\ ff.SysHeight = st.ProcessLists[ff.DBHeight].SysHeight
  /\ ff.Height <= st.ProcessLists[ff.DBHeight].VMs[ff.VMIndex].Height

\* the faults with ClearFault set that the system list may hold, that are
\* in turn and that carry enough signatures and the pledge
ClearFaults(st) ==
  LET pl == st.ProcessLists[st.LLeaderHeight]
  IN {[DBHeight |-> st.LLeaderHeight, VMIndex |-> vm,
       Height |-> Max(0, pl.VMs[vm].Height - back),
       SysHeight |-> pl.SysHeight, ClearFault |-> TRUE, ServerID |-> fed,
       AuditServerID |-> aud, EnoughSigs |-> TRUE, Pledged |-> TRUE,
       AlreadyProcessed |-> FALSE] :
        vm \in VMs, back \in {0, 1}, fed \in Servers, aud \in Servers}

\* the node has seen the VM of ff fail at time w
SeenFaulted(st, ff, w) ==
  [st EXCEPT !.ProcessLists[ff.DBHeight].VMs[ff.VMIndex].WhenFaulted = w]

SameServers(st, t, h) ==
  /\ t.ProcessLists[h].FedServers = st.ProcessLists[h].FedServers
  /\ t.ProcessLists[h].AuditServers = st.ProcessLists[h].AuditServers

Turned(env) ==
  LET t == Turn([s EXCEPT !.env = env], <<>>, <<>>)
      h == Stamp(g.mins, Minuted(t.log))
  IN [ok |-> ~t.panicked,
      s |-> [t EXCEPT !.log = <<>>, !.env = NoEnv],
      g |-> [g EXCEPT !.mins = h.mins, !.events = h.events]]

\* ENABLED <<Tick>>_vars: some turn of the validator loop changes the state
\* or the history
TickEnabled ==
  \E env \in TickEnvs :
    LET r == Turned(env) IN r.ok /\ (r.s # s \/ r.g # g)

\* WF_vars(Tick), with ENABLED <<Tick>>_vars written as TickEnabled
TickFairness == []<>(~TickEnabled) \/ []<><<Tick>>_vars

SpecLive == Init /\ [][Next]_vars /\ TickFairness

\* the EOM of minute m of block h is the next message of the list of VM i
EOMIsNext(st, h, m, i) ==
  LET vm == st.ProcessLists[h].VMs[i]
  IN /\ vm.Height < Len(vm.List)
     /\ ~IsNilSlot(vm.List[vm.Height + 1])
     /\ vm.List[vm.Height + 1].Msg.Type = "EOM"
     /\ vm.List[vm.Height + 1].Msg.DBHeight = h
     /\ vm.List[vm.Height + 1].Msg.Minute = m

\* the node is at minute m of block h, every federated VM has its EOM of the
\* minute as its next message, the faults are all handled and the block
\* below is saved
MinuteReady(h, m) ==
  LET pl == s.ProcessLists[h]
      below == GetDBState(s, h - 1)
  IN /\ ~s.panicked
     /\ s.LLeaderHeight = h /\ s.CurrentMinute = m
     /\ \A i \in 1 .. Len(pl.FedServers) : EOMIsNext(s, h, m, i - 1)
     /\ s.ProcessLists[s.LeaderPL].SysHeight >= s.ProcessLists[s.LeaderPL].SysHighest
     /\ below.Exists /\ below.Saved

\* the minutes the model lets complete
Minutes == {hm \in (1 .. MaxHeight) \X (0 .. (BlockMinutes - 1)) :
              hm[1] < MaxHeight \/ hm[2] < BlockMinutes - 1}

\* the node is at a minute whose EOMs are all there to be processed
ReadyNow == \E hm \in Minutes : MinuteReady(hm[1], hm[2])

\* an EOM of the current minute or of a minute before it is the next message
\* of a federated VM
EOMWaits ==
  \E h \in 1 .. MaxHeight :
    \E i \in 1 .. Len(s.ProcessLists[h].FedServers) :
      \E m \in 0 .. (BlockMinutes - 1) :
        /\ EOMIsNext(s, h, m, i - 1)
        /\ h < s.LLeaderHeight \/ (h = s.LLeaderHeight /\ m <= s.CurrentMinute)

\* the EOMs have all been returned as processed and the synchronisation is
\* over
Settled == ~EOMWaits /\ ~s.EOM /\ ~s.Syncing /\ s.EOMProcessed = 0

\* the node has worked on a full fault, or has been sent DBStates
Disturbed == g.faults > 0 \/ g.dbstates > 0

\* the minute has completed, the EOMs of its synchronisation are being let
\* go, the faults are handled and the block below is saved
MinuteClosing ==
  LET pl == s.ProcessLists[s.LeaderPL]
      below == GetDBState(s, s.LLeaderHeight - 1)
  IN /\ ~s.panicked
     /\ s.EOM /\ s.EOMDone /\ s.EOMProcessed > 0
     /\ s.CurrentMinute > 0
     /\ pl.SysHeight >= pl.SysHighest
     /\ below.Exists /\ below.Saved

\* C33: a minute whose EOMs were all there is left: while its EOMs are being
\* let go, a turn of the validator loop always has something to do, so that
\* weak fairness of the loop returns every EOM and ends the synchronisation
C33_ClosingMinuteMoves == MinuteClosing => TickEnabled

\* C33 (amended): when every federated VM has its EOM of the current minute
\* as its next message, the faults are handled and the block below is saved,
\* then eventually the EOMs are all returned as processed and the
\* synchronisation is over with EOMProcessed = 0, unless the node works on a
\* full fault or is sent a DBState
C33_MinuteCompletes == ReadyNow ~> (Settled \/ Disturbed)

\* the last EOM of minute 9 of block 1 has just been returned as processed:
\* the synchronisation is over and the node is at block 2
C33_Witness ==
  /\ Settled /\ ~Disturbed
  /\ s.LLeaderHeight = 2
  /\ \E k \in EOMsOut :
       /\ g.events[k].e.height = 1 /\ g.events[k].e.minute = BlockMinutes - 1
       /\ g.events[k].done # <<>>

(***************************************************************************)
(* The flags of the synchronisation: Syncing, EOM, DBSig.                  *)
(***************************************************************************)
\* at most one synchronisation is open, and Syncing says that one is
SyncFlags(st) ==
  /\ ~(st.EOM /\ st.DBSig)
  /\ st.Syncing <=> (st.EOM \/ st.DBSig)

\* the lists whose next message is an EOM
EOMsDue(st) ==
  {d \in PLHeights \X VMs :
     LET vm == st.ProcessLists[d[1]].VMs[d[2]]
     IN /\ vm.Height < Len(vm.List)
        /\ ~IsNilSlot(vm.List[vm.Height + 1])
        /\ vm.List[vm.Height + 1].Msg.Type = "EOM"}

\* msg.Process of the EOM due in list d
EOMCall(st, d) == ProcessEOM(st, d[1], DueDBSig(st, d))

\* the EOMs a node may be given to execute: its own, and those of the network
EOMsToExecute(st) == {LocalEOM} \cup {m \in SyncMsgs(st) : m.Type = "EOM"}

\* C34: EOM and DBSig are never both true, and Syncing is true exactly when
\* one of them is: in every state the node reaches, and after each of
\* LeaderExecuteEOM, ProcessEOM, ProcessDBSig, AddDBState and
\* FollowerExecuteDBState called in such a state.
C34_OneSyncAtATime ==
  /\ SyncFlags(s)
  /\ \A m \in EOMsToExecute(s) : SyncFlags(LeaderExecuteEOM(s, m))
  /\ \A d \in EOMsDue(s) : SyncFlags(EOMCall(s, d).s)
  /\ \A d \in DBSigsDue(s) : SyncFlags(DBSigCall(s, d).s)
  /\ \A ht \in Heights, keyMR \in KeyMRs, isNew \in BOOLEAN :
       SyncFlags(AddDBState(s, isNew, ht, keyMR))
  /\ \A h \in Heights \ {0}, txs \in TxLists :
       SyncFlags(FollowerExecuteDBState(s, BlockMsg(h, txs)))

\* the DBSigs of the block are done and the EOMs of a minute are being
\* counted: one EOM is in and waits in its list for the other
C34_Witness ==
  /\ s.Syncing /\ s.EOM /\ ~s.DBSig /\ s.DBSigDone
  /\ s.EOMProcessed = 1 /\ s.EOMLimit = NumFed
  /\ \E d \in EOMsDue(s) : s.ProcessLists[d[1]].VMs[d[2]].Synced

(***************************************************************************)
(* The counters of the synchronisation: EOMProcessed, DBSigProcessed.      *)
(***************************************************************************)
\* each counter is between 0 and its limit
SyncCounts(st) ==
  /\ 0 <= st.EOMProcessed /\ st.EOMProcessed <= st.EOMLimit
  /\ 0 <= st.DBSigProcessed /\ st.DBSigProcessed <= st.DBSigLimit

\* C35: 0 <= EOMProcessed <= EOMLimit and 0 <= DBSigProcessed <= DBSigLimit
\* in every state the node reaches, and after ProcessEOM and ProcessDBSig on
\* every message due in such a state: no VM is counted twice, and no
\* decrement takes a counter below 0.
C35_CountersInRange ==
  /\ SyncCounts(s)
  /\ \A m \in EOMsToExecute(s) : SyncCounts(LeaderExecuteEOM(s, m))
  /\ \A d \in EOMsDue(s) : SyncCounts(EOMCall(s, d).s)
  /\ \A d \in DBSigsDue(s) : SyncCounts(DBSigCall(s, d).s)

\* the DBSigs of all VMs were counted, the scan of the lists found a VM that
\* starts with something else, and took one off the count
ScannedBack ==
  /\ s.DBSig /\ ~s.DBSigDone /\ s.DBSigLimit = NumFed
  /\ s.DBSigProcessed = NumFed - 1
  /\ \A i \in VMs : s.ProcessLists[s.LLeaderHeight].VMs[i].Synced
  /\ DBSigScanFails(s.ProcessLists[s.LLeaderHeight])

\* every EOM of the minute is counted and the minute is done; the next call
\* returns an EOM and takes one off the count
TailDue ==
  /\ s.EOMDone /\ s.EOMLimit = NumFed /\ s.EOMProcessed = s.EOMLimit
  /\ \E d \in EOMsDue(s) :
       EOMCall(s, d).ret /\ EOMCall(s, d).s.EOMProcessed = NumFed - 1

\* a counter has been, or is about to be, decremented
C35_Witness == ScannedBack \/ TailDue

(***************************************************************************)
(* What a block given up by the double-spend scan leaves behind            *)
(* (src 613-640, 392-436).                                                 *)
(***************************************************************************)
\* what the consensus keeps of the node's place: height, minute, leader
\* flag, the flags of the synchronisation, the temporary balances
Place(st) ==
  [LLeaderHeight |-> st.LLeaderHeight, CurrentMinute |-> st.CurrentMinute,
   RunLeader |-> st.RunLeader, Syncing |-> st.Syncing, EOM |-> st.EOM,
   DBSig |-> st.DBSig, FactoidBalancesT |-> st.FactoidBalancesT,
   ECBalancesT |-> st.ECBalancesT]

\* C36: when FollowerExecuteDBState gives up a block for a double spend, the
\* state is as before the call: the DBState list has no DBState of the
\* height that it had not before, and LLeaderHeight, CurrentMinute,
\* RunLeader, Syncing, EOM, DBSig and the temporary balances are unchanged.
C36_RejectedBlockLeavesNoTrace ==
  \A h \in Heights \ {0}, txs \in OfferedTxs :
    (Scans(s, BlockMsg(h, txs)) /\ Replayed(s, txs))
      => LET t == FollowerExecuteDBState(s, BlockMsg(h, txs))
         IN /\ t.DBStates[h].Exists => s.DBStates[h].Exists
            /\ Place(t) = Place(s)

(***************************************************************************)
(* The pass of Process over XReview (src 209-238).                         *)
(***************************************************************************)
\* the state of Process before the pass over XReview
ReviewStart(st, acks, msgs) ==
  LET a == BootWindow(st)
  IN QueueLoop(AckLoop(ReviewHolding(ProcessDrain(a)), LeaderVM(a), acks),
               LeaderVM(a), msgs)

\* what a call of Process may find outside the State
CallEnvs == TickEnvs \cup ReviewEnvs \cup {RunEnv}

\* the messages in XReview
InReview(st) == {st.XReview[j] : j \in 1 .. Len(st.XReview)}

\* the messages that were in XReview at the start of the pass of a Process
\* called in state st, or came into it during the pass, and that at the end
\* of Process have not been executed and are neither in XReview nor in
\* Holding
LostInReview(st, acks, msgs) ==
  LET vmref == LeaderVM(BootWindow(st))
      x == ReviewStart(st, acks, msgs)
      mid == MsgLoop(x, vmref, x.XReview)
      end == ProcessReview(x, vmref)
  IN IF end.panicked THEN {}
     ELSE {m \in InReview(x) \cup InReview(mid) :
             /\ m \notin InReview(x)
             /\ m \notin InReview(end)
             /\ m.MsgHash \notin DOMAIN end.Holding}

OwnDBSigs(st, h) ==
  UNION {{<<v, j>> : j \in {i \in 1 .. Len(st.ProcessLists[h].VMs[v].List) :
                             LET sl == st.ProcessLists[h].VMs[v].List[i]
                             IN /\ ~IsNilSlot(sl)
                                /\ sl.Msg.Type = "DBSig" /\ sl.Msg.Local}}
           : v \in VMs}

\* and those that wait in Holding
OwnDBSigsHeld(st, h) ==
  {k \in DOMAIN st.Holding :
     /\ st.Holding[k].Type = "DBSig" /\ st.Holding[k].Local
     /\ st.Holding[k].DBHeight = h}

\* the process lists whose DBSigAlreadySent is set
Sent(st) == {h \in PLHeights : st.ProcessLists[h].DBSigAlreadySent}

\* a call that took st to r built no DirectoryBlockSignature for a list
\* that had sent one, and at most one for another, which is marked
BuiltOnce(st, r) ==
  /\ Sent(st) \subseteq Sent(r)
  /\ Cardinality(Sent(r) \ Sent(st)) <= 1
  /\ \A k \in Sent(st) :
       /\ r.ProcessLists[k] = st.ProcessLists[k]
       /\ OwnDBSigsHeld(r, k) = OwnDBSigsHeld(st, k)
  /\ \A k \in PLHeights \ Sent(r) :
       /\ OwnDBSigs(r, k) = OwnDBSigs(st, k)
       /\ OwnDBSigsHeld(r, k) = OwnDBSigsHeld(st, k)
       /\ \A v \in VMs : r.ProcessLists[k].VMs[v].Signed
                           = st.ProcessLists[k].VMs[v].Signed

\* the calls of SendDBSig the program makes (src 66, 142)
DBSigSends(st) == {st.LLeaderHeight, st.LeaderPL} \X VMs

\* SendDBSig comes to the test of DBSigAlreadySent, and it is set
SendFindsSent(st, h, v) ==
  LET pl == st.ProcessLists[h]
      lead == GetVirtualServers(pl, pl.VMs[v].LeaderMinute, st.IdentityChainID)
  IN /\ h > GetHighestSavedBlk(st) /\ ~st.EOM
     /\ pl.VMs[v].Height = 0 /\ lead.Leader /\ lead.LeaderVMIndex = v
     /\ ~pl.VMs[v].Signed /\ GetDBState(st, h - 1).Exists
     /\ pl.DBSigAlreadySent

\* C38: for each DBHeight the node builds and leader-executes at most one
\* DirectoryBlockSignature of its own: DBSigAlreadySent of a process list,
\* once set, stays set; a process list holds at most one own
\* DirectoryBlockSignature, and only when DBSigAlreadySent is set; and
\* neither a SendDBSig nor the block close builds one for a list whose
\* DBSigAlreadySent is set, while one they build for another list sets it.
C38_OneOwnDBSigPerHeight ==
  /\ [][Sent(s) \subseteq Sent(s')]_vars
  /\ [](/\ \A h \in PLHeights :
            /\ Cardinality(OwnDBSigs(s, h)) + Cardinality(OwnDBSigsHeld(s, h)) <= 1
            /\ OwnDBSigs(s, h) # {} => h \in Sent(s)
        /\ \A d \in DBSigSends(s) : BuiltOnce(s, SendDBSig(s, d[1], d[2]))
        /\ BuiltOnce(s, CloseDBSig(s)))

\* the block close sent the DirectoryBlockSignature of the block the node
\* leads, it is in its list, and a SendDBSig for that list comes to the test
\* of DBSigAlreadySent
C38_Witness ==
  /\ s.Leader
  /\ OwnDBSigs(s, s.LLeaderHeight) # {}
  /\ \E v \in VMs : SendFindsSent(s, s.LLeaderHeight, v)

(***************************************************************************)
(* The mutexes of the temporary balances (src 421-436, 2135-2205).         *)
(***************************************************************************)
\* src 2135-2205: with rt true an accessor of the temporary balances locks
\* the mutex of the process list of LLeaderHeight.  A sync.Mutex that is
\* held makes Lock wait for the Unlock, whoever holds it.  TRUE when the
\* call, made in state st, gets the mutex
GetF(st, rt) == rt => ~st.ProcessLists[st.LLeaderHeight].FactoidBalancesTMutex

PutF(st, rt) == rt => ~st.ProcessLists[st.LLeaderHeight].FactoidBalancesTMutex

GetE(st, rt) == rt => ~st.ProcessLists[st.LLeaderHeight].ECBalancesTMutex

PutE(st, rt) == rt => ~st.ProcessLists[st.LLeaderHeight].ECBalancesTMutex

\* the blocks from .. to arrive in state st: the state in which Process
\* executes the block of height h (src 194-205)
DBStateTurn(st, from, h, txs) ==
  LET a == BootWindow([st EXCEPT !.env = RunEnv])
  IN QueueLoop(AckLoop(ReviewHolding(ProcessDrain(a)), LeaderVM(a), <<>>),
               LeaderVM(a),
               [i \in 1 .. (h - from) |-> BlockMsg(from + i - 1, txs)])

\* the states in which AddDBState is called for a block that arrives and
\* moves the leader height, with the height of the block
Advancing(st) ==
  {x \in {<<DBStateTurn(st, from, h, txs), h>> :
            from \in Heights \ {0}, h \in Heights \ {0}, txs \in TxLists} :
     /\ ~x[1].panicked
     /\ AdvancesLeaderHeight(x[1], x[2])
     /\ \E txs \in TxLists : Scans(x[1], BlockMsg(x[2], txs))}

\* C39: AddDBState holds the mutexes of the temporary balances of the
\* leader's list only while it replaces the two maps: when it runs
\* ProcessLists.UpdateState (src 434), GetF, PutF, GetE and PutE with rt
\* true get the mutex they lock.
C39_TempBalancesFreeInUpdate ==
  \A x \in Advancing(s) :
    LET a == AddDBStateLock(x[1], x[2])
    IN GetF(a, TRUE) /\ PutF(a, TRUE) /\ GetE(a, TRUE) /\ PutE(a, TRUE)

(***************************************************************************)
(* The buffer machine: DBStatesReceived alone, to height MaxDBHeight.       *)
(***************************************************************************)
\* the highest block a DBState is sent for
MaxDBHeight == 6

\* pdbstate.ValidNext for a ledger that is saved up to block saved and a
\* DBState of height h whose links fit
ValidNextHeight(saved, h) ==
  IF h <= saved THEN -1 ELSE IF h > saved + 1 THEN 0 ELSE 1

\* The buffer machine: Saved is the highest saved block, process the
\* channel of the last Process
InitBuf ==
  /\ s = [Saved |-> 0, DBStatesReceived |-> <<>>, DBStatesReceivedBase |-> 0,
          process |-> <<>>]
  /\ g = NoHistory

\* FollowerExecuteDBState (src 547-656) for the DBState of height h from the
\* message queue: it is applied and saved when it is the next block,
\* buffered when it may be valid later, ignored otherwise
BufExecute ==
  \E h \in 1 .. MaxDBHeight :
    LET v == ValidNextHeight(s.Saved, h)
        a == [s EXCEPT !.process = <<>>]
    IN /\ s' = IF v = 1 THEN [a EXCEPT !.Saved = h]
               ELSE IF v = 0 THEN BufferDBState(a, s.Saved, BlockMsg(h, <<>>))
               ELSE a
       /\ s' # s
       /\ UNCHANGED g

\* Process (src 148-161)
BufProcess ==
  /\ s' = DrainDBStates(s, s.Saved)
  /\ s' # s
  /\ UNCHANGED g

\* the node completes and saves the next block itself
BufSave ==
  /\ s.Saved < MaxDBHeight
  /\ s' = [s EXCEPT !.Saved = @ + 1, !.process = <<>>]
  /\ UNCHANGED g

NextBuf == BufExecute \/ BufProcess \/ BufSave

SpecBuf == InitBuf /\ [][NextBuf]_vars

\* C40: every DBState that waits in DBStatesReceived is at the index of its
\* height, DBStatesReceived[i] is for the block DBStatesReceivedBase + i;
\* and the message Process moves to the process channel is the DBState of
\* the block above the highest saved one.
C40_ReceivedAtItsHeight ==
  /\ \A i \in 1 .. Len(s.DBStatesReceived) :
       ~s.DBStatesReceived[i].Nil =>
         /\ s.DBStatesReceived[i].Type = "DBState"
         /\ s.DBStatesReceived[i].DBHeight = s.DBStatesReceivedBase + (i - 1)
  /\ \A i \in 1 .. Len(s.process) : s.process[i].DBHeight = s.Saved + 1

====
